---- MODULE Spec2Model ----
(***************************************************************************)
(* Model of the world-runtime tick pipeline (world-template repository):   *)
(* grid geometry, GridMap, MinHeap, the ECS command buffer, the core       *)
(* passes (pending, timer, dynamic collider, movement, path finding, plan  *)
(* execution, straight walk), the demo passes (InitPlayerPass,             *)
(* SimpleAIPass) and the TaskManager.                                      *)
(*                                                                         *)
(* Conventions.                                                            *)
(*  - An optional value is a sequence of length 0 (absent) or 1 (present). *)
(*  - A component id is a tuple of strings: <<"Move">> is a component,     *)
(*    <<"Timer", "Thinking">> is relation(Timer, Thinking).                *)
(*  - Tile indices, directions and tile types are the numbers of the       *)
(*    source (Direction.Up = 0 ... Direction.Right = 3), because the code  *)
(*    compares and truth-tests them as numbers.                            *)
(*  - Sequences are 1-based: element i of a source array is element i + 1. *)
(***************************************************************************)
EXTENDS Integers, Sequences, FiniteSets, TLC

VARIABLES
  map,        \* the GridMap built at construction (immutable afterwards)
  opts,       \* SimpleAIPass options and the injected randomness
  world,      \* committed ECS state: entity -> component id -> optional value
  cmds,       \* ECS command buffer: set/remove calls not yet applied by sync()
  colliders,  \* DynamicColliderPass.colliders, the bitset shared by the passes
  tasks,      \* TaskManager.tasks: entity -> optional handle (generation)
  timers,     \* host timers scheduled by setTimeout: set of [e, gen]
  nextGen,    \* generation given to the next task handle
  events,     \* platform events emitted so far (sequence of [type, e])
  pc,         \* the pass of the pipeline that runs next
  tick,       \* number of completed pipeline runs
  initial,    \* the world as it was before the first tick
  args,       \* the arguments of a function called on its own
  ret,        \* the value that call returned
  lastMove,   \* EcsWorkerApi.#lastMove: entity -> optional totalTicks
  nextEntity, \* the entity id the next world.new() returns
  heap,       \* a MinHeap used on its own: [heap, keyToIndex]
  pushed      \* the keys of that heap in the order in which they were inserted

vars == <<map, opts, world, cmds, colliders, tasks, timers, nextGen, events, pc, tick,
          initial, args, ret, lastMove, nextEntity,
          heap, pushed>>

(***************************************************************************)
(* Bounds of the model.                                                    *)
(***************************************************************************)
MaxTick == 26
MaxWalk == 2
MaxRetries == 3
MaxTimer == 2

(***************************************************************************)
(* types.ts                                                                *)
(***************************************************************************)
Obstacle == 0
Normal == 1
Fast == 2

Up == 0
Down == 1
Left == 2
Right == 3

Directions == {Up, Down, Left, Right}

Infinity == 1000000

\* Scores of the path search are kept as multiples of 1/Scale, so that the
\* extra cost 20 * (1 / dist) of a dynamic obstacle is exact.
Scale == 60

None == <<>>
Some(v) == <<v>>
IsSome(o) == Len(o) = 1
Val(o) == o[1]

Abs(n) == IF n < 0 THEN -n ELSE n

(***************************************************************************)
(* geometry.ts: GridGeometry                                               *)
(***************************************************************************)
inBounds(g, x, y) == x >= 0 /\ x < g.width /\ y >= 0 /\ y < g.height

\* Callers of the model only pass in-bounds coordinates (the source throws).
toIndex(g, x, y) == y * g.width + x

fromIndex(g, index) == [x |-> index % g.width, y |-> index \div g.width]

(***************************************************************************)
(* utils/min-heap.ts: MinHeap.  A heap is [heap, keyToIndex]: the array of  *)
(* {key, priority} entries and the map from key to (0-based) array index.  *)
(***************************************************************************)
EmptyHeap == [heap |-> <<>>, keyToIndex |-> <<>>]

heapSize(h) == Len(h.heap)

contains(h, key) == key \in DOMAIN h.keyToIndex

\* keyToIndex as a function on the keys present
setIndex(k2i, key, idx) == [k \in (DOMAIN k2i) \cup {key} |-> IF k = key THEN idx ELSE k2i[k]]

deleteIndex(k2i, key) == [k \in (DOMAIN k2i) \ {key} |-> k2i[k]]

swap(h, a, b) ==
  LET ea == h.heap[a + 1]
      eb == h.heap[b + 1]
      heap1 == [h.heap EXCEPT ![a + 1] = eb, ![b + 1] = ea]
  IN [heap |-> heap1,
      keyToIndex |-> setIndex(setIndex(h.keyToIndex, heap1[a + 1].key, a), heap1[b + 1].key, b)]

RECURSIVE siftUp(_, _)
siftUp(h, idx) ==
  IF idx > 0
  THEN LET parent == (idx - 1) \div 2
       IN IF h.heap[parent + 1].priority <= h.heap[idx + 1].priority
          THEN h
          ELSE siftUp(swap(h, parent, idx), parent)
  ELSE h

RECURSIVE siftDown(_, _)
siftDown(h, idx) ==
  LET len == Len(h.heap)
      left == idx * 2 + 1
      right == idx * 2 + 2
      s1 == IF left < len /\ h.heap[left + 1].priority < h.heap[idx + 1].priority
            THEN left ELSE idx
      smallest == IF right < len /\ h.heap[right + 1].priority < h.heap[s1 + 1].priority
                  THEN right ELSE s1
  IN IF smallest = idx THEN h ELSE siftDown(swap(h, idx, smallest), smallest)

\* push without the test for a key that is present already
pushAgain(h, key, priority) ==
  siftUp([heap |-> Append(h.heap, [key |-> key, priority |-> priority]),
          keyToIndex |-> setIndex(h.keyToIndex, key, Len(h.heap))], Len(h.heap))

push(h, key, priority) ==
  IF contains(h, key)
  THEN h
  ELSE LET heap1 == Append(h.heap, [key |-> key, priority |-> priority])
           idx == Len(heap1) - 1
       IN siftUp([heap |-> heap1, keyToIndex |-> setIndex(h.keyToIndex, key, idx)], idx)

\* pop of a non-empty heap: [top, h]
pop(h) ==
  LET top == h.heap[1]
      k1 == deleteIndex(h.keyToIndex, top.key)
      last == h.heap[Len(h.heap)]
      rest == SubSeq(h.heap, 1, Len(h.heap) - 1)
  IN IF Len(rest) > 0
     THEN [top |-> top,
           h |-> siftDown([heap |-> [rest EXCEPT ![1] = last],
                           keyToIndex |-> setIndex(k1, last.key, 0)], 0)]
     ELSE [top |-> top, h |-> [heap |-> rest, keyToIndex |-> k1]]

decreasePriority(h, key, newPriority) ==
  IF ~contains(h, key)
  THEN push(h, key, newPriority)
  ELSE LET idx == h.keyToIndex[key]
       IN IF newPriority < h.heap[idx + 1].priority
          THEN siftUp([h EXCEPT !.heap[idx + 1].priority = newPriority], idx)
          ELSE h

(***************************************************************************)
(* map.ts: GridMap.  A map m is the record built by the constructor:       *)
(* geometry, tiles, portals and the precomputed indexes.  A portal is      *)
(* [from, to, direction] with direction optional.                          *)
(***************************************************************************)
tileCount(g) == g.width * g.height

tileAt(tiles, index) == IF index >= 0 /\ index < Len(tiles) THEN Some(tiles[index + 1]) ELSE None

isObstacleT(tiles, index) == tileAt(tiles, index) = Some(Obstacle)

isObstacle(m, index) == isObstacleT(m.tiles, index)

\* getCost without the entry for Fast tiles
getCostTNormal(tiles, index) ==
  IF tileAt(tiles, index) = Some(Normal) \/ tileAt(tiles, index) = Some(Fast) THEN 10 ELSE Infinity

getCostT(tiles, index) ==
  LET type == tileAt(tiles, index)
  IN IF type = Some(Obstacle) THEN Infinity
     ELSE IF type = Some(Normal) THEN 10
     ELSE IF type = Some(Fast) THEN 7
     ELSE Infinity

getCost(m, index) == getCostT(m.tiles, index)

\* the [dx, dy] pairs of getNeighbors and floodFill, in the source's order
NeighborDirs == << <<0, 1>>, <<0, -1>>, <<1, 0>>, <<-1, 0>> >>

RECURSIVE floodFill(_, _, _, _)
RECURSIVE floodFillDirs(_, _, _, _, _)
\* st = [visited, island]; the result is st after the recursive fill from index
floodFill(g, tiles, index, st) ==
  IF index \in st.visited \/ isObstacleT(tiles, index)
  THEN st
  ELSE floodFillDirs(g, tiles, index,
                     [visited |-> st.visited \cup {index}, island |-> Append(st.island, index)], 1)

floodFillDirs(g, tiles, index, st, k) ==
  IF k > Len(NeighborDirs)
  THEN st
  ELSE LET nx == fromIndex(g, index).x + NeighborDirs[k][1]
           ny == fromIndex(g, index).y + NeighborDirs[k][2]
       IN floodFillDirs(g, tiles, index,
                        IF nx >= 0 /\ nx < g.width /\ ny >= 0 /\ ny < g.height
                        THEN floodFill(g, tiles, ny * g.width + nx, st)
                        ELSE st,
                        k + 1)

RECURSIVE computeIslandsFrom(_, _, _, _, _)
\* the loop of computeIslands from tile i on: the list of islands
computeIslandsFrom(g, tiles, i, visited, islands) ==
  IF i >= Len(tiles)
  THEN islands
  ELSE IF i \notin visited /\ ~isObstacleT(tiles, i)
       THEN LET st == floodFill(g, tiles, i, [visited |-> visited, island |-> <<>>])
            IN computeIslandsFrom(g, tiles, i + 1, st.visited, Append(islands, st.island))
       ELSE computeIslandsFrom(g, tiles, i + 1, visited, islands)

computeIslands(g, tiles) == computeIslandsFrom(g, tiles, 0, {}, <<>>)

SeqRange(s) == {s[i] : i \in DOMAIN s}

\* precomputeIslandIds that numbers every tile of an island 0
precomputeIslandIdsFlat(tiles, islands) ==
  [i \in 1..Len(tiles) |->
     IF \E k \in DOMAIN islands : (i - 1) \in SeqRange(islands[k]) THEN 0 ELSE -1]

\* islandIds[index] = islandIdx for the tiles of islands[islandIdx], else -1
precomputeIslandIds(tiles, islands) ==
  [i \in 1..Len(tiles) |->
     IF \E k \in DOMAIN islands : (i - 1) \in SeqRange(islands[k])
     THEN (CHOOSE k \in DOMAIN islands : (i - 1) \in SeqRange(islands[k])) - 1
     ELSE -1]

\* islandIndex[index]; an index outside the array reads undefined (None)
islandAt(islandIndex, index) ==
  IF index >= 0 /\ index < Len(islandIndex) THEN Some(islandIndex[index + 1]) ELSE None

\* portal indexes (0-based) whose from (side = "from") or to tile lies on island
portalIdxOn(islandIndex, portals, island, side) ==
  SelectSeq([i \in 1..Len(portals) |-> i - 1],
            LAMBDA idx : islandAt(islandIndex, IF side = "from" THEN portals[idx + 1].from
                                                ELSE portals[idx + 1].to) = Some(island))

IslandIds(islandIndex) == {islandIndex[i] : i \in DOMAIN islandIndex} \ {-1}

precomputeIslandPortals(islandIndex, portals) ==
  [islandPortalEntries |->
     [isl \in {i \in IslandIds(islandIndex) : portalIdxOn(islandIndex, portals, i, "from") # <<>>}
        |-> portalIdxOn(islandIndex, portals, isl, "from")],
   islandPortalExits |->
     [isl \in {i \in IslandIds(islandIndex) : portalIdxOn(islandIndex, portals, i, "to") # <<>>}
        |-> portalIdxOn(islandIndex, portals, isl, "to")]]

precomputePortalsByFrom(portals) ==
  [f \in {portals[i].from : i \in DOMAIN portals} |-> SelectSeq(portals, LAMBDA p : p.from = f)]

portalsAt(m, idx) == IF idx \in DOMAIN m.portalsByFrom THEN m.portalsByFrom[idx] ELSE <<>>

\* concatenation of a sequence of sequences
RECURSIVE Flatten(_)
Flatten(ss) == IF ss = <<>> THEN <<>> ELSE ss[1] \o Flatten(Tail(ss))

\* the in-bounds, non-obstacle tiles next to index, in the order of NeighborDirs
adjacentTiles(m, index) ==
  LET pos == fromIndex(m.geometry, index)
      cell(k) == LET nx == pos.x + NeighborDirs[k][1]
                     ny == pos.y + NeighborDirs[k][2]
                 IN IF inBounds(m.geometry, nx, ny) /\ ~isObstacle(m, ny * m.geometry.width + nx)
                    THEN <<ny * m.geometry.width + nx>>
                    ELSE <<>>
  IN Flatten([k \in 1..Len(NeighborDirs) |-> cell(k)])

\* getNeighbors(index, entryDirection): the adjacent tiles, then for every
\* adjacent tile the destinations of its portals whose direction matches
getNeighbors(m, index, entryDirection) ==
  LET adjacent == adjacentTiles(m, index)
      matching(adj) ==
        LET ps == SelectSeq(portalsAt(m, adj),
                            LAMBDA portal : \/ portal.direction = None
                                            \/ portal.direction = entryDirection
                                            \/ entryDirection = None)
        IN [i \in 1..Len(ps) |-> ps[i].to]
  IN adjacent \o Flatten([i \in 1..Len(adjacent) |-> matching(adjacent[i])])

manhattan(g, a, b) ==
  Abs(fromIndex(g, a).x - fromIndex(g, b).x) + Abs(fromIndex(g, a).y - fromIndex(g, b).y)

estimateDistance(m, from, to) ==
  IF islandAt(m.islandIndex, from) = Some(-1) \/ islandAt(m.islandIndex, to) = Some(-1)
  THEN Infinity
  ELSE manhattan(m.geometry, from, to)

\* the first portal at adjacentIdx that direction triggers, if any
\* generateMove finding no portal on the adjacent tile
matchingPortalNone(m, adjacentIdx, direction) == None

matchingPortal(m, adjacentIdx, direction) ==
  LET ps == SelectSeq(portalsAt(m, adjacentIdx),
                      LAMBDA portal : portal.direction = None \/ portal.direction = Some(direction))
  IN IF ps = <<>> THEN None ELSE Some(ps[1])

\* generateMove that does not ask checkDynamicObstacle
generateMoveStatic(m, fromIdx, direction, dyn) ==
  LET fromPos == fromIndex(m.geometry, fromIdx)
      nx == fromPos.x + (IF direction = Left THEN -1 ELSE IF direction = Right THEN 1 ELSE 0)
      ny == fromPos.y + (IF direction = Up THEN -1 ELSE IF direction = Down THEN 1 ELSE 0)
      adjacentIdx == toIndex(m.geometry, nx, ny)
      portal == matchingPortal(m, adjacentIdx, direction)
      cost == getCost(m, adjacentIdx)
  IN IF ~inBounds(m.geometry, nx, ny) \/ isObstacle(m, adjacentIdx) \/ cost >= Infinity THEN None
     ELSE IF IsSome(portal)
          THEN IF Val(portal).to < 0 \/ Val(portal).to >= tileCount(m.geometry) THEN None
               ELSE Some([totalTicks |-> cost, remainingTicks |-> cost,
                          targetIdx |-> Val(portal).to,
                          targetPosition |-> fromIndex(m.geometry, Val(portal).to)])
          ELSE Some([totalTicks |-> cost, remainingTicks |-> cost,
                     targetIdx |-> adjacentIdx,
                     targetPosition |-> [x |-> nx, y |-> ny]])

\* generateMove(fromIdx, direction, checkDynamicObstacle): an optional Move;
\* dyn is the set of tiles for which checkDynamicObstacle answers true
generateMove(m, fromIdx, direction, dyn) ==
  LET fromPos == fromIndex(m.geometry, fromIdx)
      nx == fromPos.x + (IF direction = Left THEN -1 ELSE IF direction = Right THEN 1 ELSE 0)
      ny == fromPos.y + (IF direction = Up THEN -1 ELSE IF direction = Down THEN 1 ELSE 0)
      adjacentIdx == toIndex(m.geometry, nx, ny)
      portal == matchingPortal(m, adjacentIdx, direction)
      cost == getCost(m, adjacentIdx)
  IN IF ~inBounds(m.geometry, nx, ny) THEN None
     ELSE IF isObstacle(m, adjacentIdx) \/ adjacentIdx \in dyn THEN None
     ELSE IF IsSome(portal)
          THEN IF Val(portal).to < 0 \/ Val(portal).to >= tileCount(m.geometry) THEN None
               ELSE IF cost >= Infinity THEN None
               ELSE Some([totalTicks |-> cost, remainingTicks |-> cost,
                          targetIdx |-> Val(portal).to,
                          targetPosition |-> fromIndex(m.geometry, Val(portal).to)])
          ELSE IF cost >= Infinity THEN None
               ELSE Some([totalTicks |-> cost, remainingTicks |-> cost,
                          targetIdx |-> adjacentIdx,
                          targetPosition |-> [x |-> nx, y |-> ny]])

(***************************************************************************)
(* map.ts: the A* of the constructor (cost between two tiles of an island) *)
(***************************************************************************)
\* the [dx, dy, direction] triples of aStar, in the source's order
DirTriples == << <<0, 1, Down>>, <<0, -1, Up>>, <<1, 0, Right>>, <<-1, 0, Left>> >>

\* score.get(node) || Infinity: an absent score and a score of 0 both read Infinity
scoreOrInfinity(score, node) ==
  IF node \in DOMAIN score /\ score[node] # 0 THEN score[node] ELSE Infinity

\* the node of openSet (in insertion order) with the lowest fScore, or -1
RECURSIVE lowestOpen(_, _, _, _)
lowestOpen(open, fScore, current, lowest) ==
  IF open = <<>>
  THEN current
  ELSE LET f == scoreOrInfinity(fScore, open[1])
       IN IF f < lowest
          THEN lowestOpen(Tail(open), fScore, open[1], f)
          ELSE lowestOpen(Tail(open), fScore, current, lowest)

removeOpen(open, node) == SelectSeq(open, LAMBDA n : n # node)

addOpen(open, node) == IF node \in SeqRange(open) THEN open ELSE Append(open, node)

\* one neighbour of current in aStar: st = [open, closed, g, f]
aStarRelax(g, tiles, portals, goal, current, st, k) ==
  LET nx == fromIndex(g, current).x + DirTriples[k][1]
      ny == fromIndex(g, current).y + DirTriples[k][2]
      direction == DirTriples[k][3]
      neighbor == toIndex(g, nx, ny)
      tentativeG == st.g[current] + getCostT(tiles, neighbor)
  IN IF ~(nx >= 0 /\ nx < g.width /\ ny >= 0 /\ ny < g.height) THEN st
     ELSE IF \/ isObstacleT(tiles, neighbor)
             \/ /\ neighbor # goal
                /\ \E i \in DOMAIN portals :
                      /\ portals[i].from = neighbor
                      /\ (portals[i].direction = None \/ portals[i].direction = Some(direction))
             \/ neighbor \in st.closed
          THEN st
     ELSE IF tentativeG < scoreOrInfinity(st.g, neighbor)
          THEN [st EXCEPT !.g = setIndex(st.g, neighbor, tentativeG),
                          !.f = setIndex(st.f, neighbor, tentativeG + manhattan(g, neighbor, goal)),
                          !.open = addOpen(st.open, neighbor)]
          ELSE st

RECURSIVE aStarLoop(_, _, _, _, _)
aStarLoop(g, tiles, portals, goal, st) ==
  IF st.open = <<>>
  THEN None
  ELSE LET current == lowestOpen(st.open, st.f, -1, Infinity)
       IN IF current < 0 \/ current >= tileCount(g)
          \* openSet.delete(current) removes nothing: the loop repeats unchanged
          \* until iterations > 10000 and returns null
          THEN None
          ELSE IF current = goal
          THEN Some(st.g[current])
          ELSE LET st0 == [st EXCEPT !.open = removeOpen(st.open, current),
                                     !.closed = st.closed \cup {current}]
                   st1 == aStarRelax(g, tiles, portals, goal, current, st0, 1)
                   st2 == aStarRelax(g, tiles, portals, goal, current, st1, 2)
                   st3 == aStarRelax(g, tiles, portals, goal, current, st2, 3)
                   st4 == aStarRelax(g, tiles, portals, goal, current, st3, 4)
               IN aStarLoop(g, tiles, portals, goal, st4)

\* aStar(start, goal, ...): the optional cost of the cheapest in-island route
aStar(g, tiles, portals, start, goal) ==
  IF start < 0 \/ start >= tileCount(g) \/ goal < 0 \/ goal >= tileCount(g) THEN None
  ELSE IF isObstacleT(tiles, start) \/ isObstacleT(tiles, goal) THEN None
  ELSE aStarLoop(g, tiles, portals, goal,
                 [open |-> <<start>>, closed |-> {},
                  g |-> setIndex(<<>>, start, 0),
                  f |-> setIndex(<<>>, start, manhattan(g, start, goal))])

\* the inner loop of computePortalDistances for portal number pi (1-based)
RECURSIVE portalDistMap(_, _, _, _, _, _)
portalDistMap(g, tiles, portals, islandIndex, pi, oi) ==
  IF oi > Len(portals)
  THEN <<>>
  ELSE LET rest == portalDistMap(g, tiles, portals, islandIndex, pi, oi + 1)
           other == portals[oi]
           cost == aStar(g, tiles, portals, portals[pi].to, other.from)
       IN IF other.from < 0 \/ other.from >= Len(tiles) THEN rest
          ELSE IF oi # pi /\ islandAt(islandIndex, other.from) = islandAt(islandIndex, portals[pi].to)
                  /\ IsSome(cost) /\ other.from \notin DOMAIN rest
               \* a later portal with the same from would overwrite with the same cost
               THEN setIndex(rest, other.from, Val(cost))
               ELSE rest

\* distances.set(portal.to, distMap), made when distMap.size > 0
setPortalDistances(tiles, islandIndex, to, distMap, distances) ==
  IF to < 0 \/ to >= Len(tiles) \/ islandAt(islandIndex, to) = Some(-1) \/ distMap = <<>>
  THEN distances
  ELSE setIndex(distances, to, distMap)

RECURSIVE computePortalDistancesFrom(_, _, _, _, _, _)
computePortalDistancesFrom(g, tiles, portals, islandIndex, pi, distances) ==
  IF pi > Len(portals)
  THEN distances
  ELSE computePortalDistancesFrom(g, tiles, portals, islandIndex, pi + 1,
                                  setPortalDistances(tiles, islandIndex, portals[pi].to,
                                                     portalDistMap(g, tiles, portals, islandIndex, pi, 1),
                                                     distances))

computePortalDistances(g, tiles, portals, islandIndex) ==
  computePortalDistancesFrom(g, tiles, portals, islandIndex, 1, <<>>)

\* computePortalPaths: initialisation of dist and path (portal indexes 0-based)
initialPortalTable(portals, portalDistances) ==
  LET n == Len(portals)
      direct(i, j) ==
        /\ i # j
        /\ portals[i + 1].to \in DOMAIN portalDistances
        /\ portals[j + 1].from \in DOMAIN portalDistances[portals[i + 1].to]
  IN [dist |-> [i \in 0..(n - 1) |-> [j \in 0..(n - 1) |->
                  IF i = j THEN 0
                  ELSE IF direct(i, j) THEN portalDistances[portals[i + 1].to][portals[j + 1].from]
                  ELSE Infinity]],
      path |-> [i \in 0..(n - 1) |-> [j \in 0..(n - 1) |->
                  IF i = j THEN <<i>>
                  ELSE IF direct(i, j) THEN <<i, j>>
                  ELSE <<>>]]]

\* the Floyd-Warshall loops, resumed at step (k, i, j), updating in place
RECURSIVE floydWarshall(_, _, _, _, _)
floydWarshall(n, t, k, i, j) ==
  IF k >= n THEN t
  ELSE IF i >= n THEN floydWarshall(n, t, k + 1, 0, 0)
  ELSE IF j >= n THEN floydWarshall(n, t, k, i + 1, 0)
  ELSE LET dik == t.dist[i][k]
           dkj == t.dist[k][j]
           dij == t.dist[i][j]
       IN IF dik < Infinity /\ dkj < Infinity /\ dik + dkj < dij
          THEN floydWarshall(n, [dist |-> [t.dist EXCEPT ![i][j] = dik + dkj],
                                 path |-> [t.path EXCEPT ![i][j] = t.path[i][k] \o Tail(t.path[k][j])]],
                             k, i, j + 1)
          ELSE floydWarshall(n, t, k, i, j + 1)

\* computePortalPaths without the Floyd-Warshall loops
computePortalPathsDirect(portals, portalDistances) ==
  LET n == Len(portals)
      t == initialPortalTable(portals, portalDistances)
  IN [i \in 0..(n - 1) |->
        [j \in {jj \in 0..(n - 1) : t.dist[i][jj] < Infinity} |->
           [cost |-> t.dist[i][j], path |-> t.path[i][j]]]]

computePortalPaths(portals, portalDistances) ==
  LET n == Len(portals)
      t == floydWarshall(n, initialPortalTable(portals, portalDistances), 0, 0, 0)
  IN [i \in 0..(n - 1) |->
        [j \in {jj \in 0..(n - 1) : t.dist[i][jj] < Infinity} |->
           [cost |-> t.dist[i][j], path |-> t.path[i][j]]]]

\* the fields of a GridMap, from the tables the constructor precomputes
GridMapFields(geometry, tiles, portals, islandIndex, islandPortals, portalDistances) ==
  [geometry |-> geometry,
   tiles |-> tiles,
   portals |-> portals,
   islandIndex |-> islandIndex,
   islandPortalEntries |-> islandPortals.islandPortalEntries,
   islandPortalExits |-> islandPortals.islandPortalExits,
   portalDistances |-> portalDistances,
   portalPaths |-> computePortalPaths(portals, portalDistances),
   portalsByFrom |-> precomputePortalsByFrom(portals)]

\* the constructor after precomputeIslandIds
GridMapIslands(geometry, tiles, portals, islandIndex) ==
  GridMapFields(geometry, tiles, portals, islandIndex,
                precomputeIslandPortals(islandIndex, portals),
                computePortalDistances(geometry, tiles, portals, islandIndex))

\* new GridMap(geometry, tiles, portals)
GridMap(geometry, tiles, portals) ==
  GridMapIslands(geometry, tiles, portals,
                 precomputeIslandIds(tiles, computeIslands(geometry, tiles)))

(***************************************************************************)
(* passes/path-finding.ts: PathFindingPass (the search functions)          *)
(***************************************************************************)
DYNAMIC_OBSTACLE_NEAR_THRESHOLD == 1
DYNAMIC_OBSTACLE_BASE_EXTRA_COST == 20

\* a score scaled to multiples of 1/Scale
scaled(n) == IF n >= Infinity THEN Infinity ELSE n * Scale

\* map.get(key) ?? Infinity
getOrInfinity(score, node) == IF node \in DOMAIN score THEN score[node] ELSE Infinity

\* reconstructPath(cameFrom, current, start): `if (!prev) break` stops on a
\* missing predecessor and on the predecessor 0
RECURSIVE reconstructPath(_, _, _, _, _)
reconstructPath(m, cameFrom, current, start, path) ==
  IF current = start
  THEN path
  ELSE IF current \notin DOMAIN cameFrom \/ cameFrom[current] = 0
  THEN path
  ELSE LET prev == cameFrom[current]
           c == fromIndex(m.geometry, current)
           p == fromIndex(m.geometry, prev)
           dir == IF c.x = p.x
                  THEN (IF c.y > p.y THEN Down ELSE Up)
                  ELSE (IF c.x > p.x THEN Right ELSE Left)
       IN reconstructPath(m, cameFrom, prev, start, <<dir>> \o path)

\* the neighbour loop of lowLevelPathfind without the dynamic-collider check
relaxNeighborThrough(m, goalIndex, dyn, current, st, neighbor) ==
  IF neighbor \in st.closedSet \/ isObstacle(m, neighbor) THEN st
  ELSE IF st.gScore[current] + scaled(getCost(m, neighbor)) < getOrInfinity(st.gScore, neighbor)
       THEN [st EXCEPT !.cameFrom = setIndex(st.cameFrom, neighbor, current),
                       !.gScore = setIndex(st.gScore, neighbor,
                                           st.gScore[current] + scaled(getCost(m, neighbor))),
                       !.fScore = setIndex(st.fScore, neighbor,
                                           st.gScore[current] + scaled(getCost(m, neighbor))
                                           + scaled(estimateDistance(m, neighbor, goalIndex))),
                       !.openSet = decreasePriority(st.openSet, neighbor,
                                                    st.gScore[current] + scaled(getCost(m, neighbor))
                                                    + scaled(estimateDistance(m, neighbor, goalIndex)))]
       ELSE st

\* the body of the neighbour loop of lowLevelPathfind for one neighbour
relaxNeighbor(m, goalIndex, dyn, current, st, neighbor) ==
  LET dist == estimateDistance(m, neighbor, goalIndex)
      blocked == neighbor \in dyn /\ dist <= DYNAMIC_OBSTACLE_NEAR_THRESHOLD
      extraCost == IF neighbor \in dyn /\ dist < Infinity
                   THEN (DYNAMIC_OBSTACLE_BASE_EXTRA_COST * DYNAMIC_OBSTACLE_NEAR_THRESHOLD * Scale) \div dist
                   ELSE 0
      tentativeG == st.gScore[current] + scaled(getCost(m, neighbor)) + extraCost
      f == IF dist >= Infinity THEN Infinity ELSE tentativeG + scaled(dist)
  IN IF neighbor \in st.closedSet \/ isObstacle(m, neighbor) THEN st
     ELSE IF blocked THEN st
     ELSE IF tentativeG < getOrInfinity(st.gScore, neighbor)
          THEN [st EXCEPT !.cameFrom = setIndex(st.cameFrom, neighbor, current),
                          !.gScore = setIndex(st.gScore, neighbor, tentativeG),
                          !.fScore = setIndex(st.fScore, neighbor, f),
                          !.openSet = decreasePriority(st.openSet, neighbor, f)]
          ELSE st

RECURSIVE relaxNeighbors(_, _, _, _, _, _)
relaxNeighbors(m, goalIndex, dyn, current, st, neighbors) ==
  IF neighbors = <<>>
  THEN st
  ELSE relaxNeighbors(m, goalIndex, dyn, current,
                      relaxNeighbor(m, goalIndex, dyn, current, st, neighbors[1]),
                      Tail(neighbors))

RECURSIVE lowLevelLoop(_, _, _, _, _)
lowLevelLoop(m, startIndex, goalIndex, dyn, st) ==
  IF heapSize(st.openSet) = 0
  THEN IF st.bestNode # -1 /\ st.bestNode # startIndex
       THEN Some(reconstructPath(m, st.cameFrom, st.bestNode, startIndex, <<>>))
       ELSE None
  ELSE LET popped == pop(st.openSet)
           current == popped.top.key
           better == current # startIndex /\ st.fScore[current] < st.bestF
           st0 == [st EXCEPT !.openSet = popped.h,
                             !.bestNode = IF better THEN current ELSE @,
                             !.bestF = IF better THEN st.fScore[current] ELSE @]
       IN IF current = goalIndex
          THEN Some(reconstructPath(m, st0.cameFrom, current, startIndex, <<>>))
          ELSE lowLevelLoop(m, startIndex, goalIndex, dyn,
                            relaxNeighbors(m, goalIndex, dyn, current,
                                           [st0 EXCEPT !.closedSet = @ \cup {current}],
                                           getNeighbors(m, current, None)))

\* lowLevelPathfind(startIndex, goalIndex, dynamicCheck): an optional
\* sequence of directions (None is null, Some(<<>>) the empty path)
lowLevelPathfind(m, startIndex, goalIndex, dyn) ==
  LET f0 == scaled(estimateDistance(m, startIndex, goalIndex))
  IN lowLevelLoop(m, startIndex, goalIndex, dyn,
                  [cameFrom |-> <<>>,
                   gScore |-> setIndex(<<>>, startIndex, 0),
                   fScore |-> setIndex(<<>>, startIndex, f0),
                   openSet |-> push(EmptyHeap, startIndex, f0),
                   closedSet |-> {},
                   bestNode |-> -1,
                   bestF |-> Infinity])

\* the (startPortal, goalPortal) loops of highLevelPathfind: best = [path, minCost]
RECURSIVE highLevelScan(_, _, _, _, _, _)
highLevelScan(m, startPortals, goalPortals, si, gi, best) ==
  IF si > Len(startPortals) THEN best
  ELSE IF gi > Len(goalPortals) THEN highLevelScan(m, startPortals, goalPortals, si + 1, 1, best)
  ELSE LET pathsFromStart == m.portalPaths[startPortals[si]]
           goalPortalIdx == goalPortals[gi]
       IN IF goalPortalIdx \in DOMAIN pathsFromStart /\ pathsFromStart[goalPortalIdx].cost < best.minCost
          THEN highLevelScan(m, startPortals, goalPortals, si, gi + 1,
                             [path |-> Some(pathsFromStart[goalPortalIdx].path),
                              minCost |-> pathsFromStart[goalPortalIdx].cost])
          ELSE highLevelScan(m, startPortals, goalPortals, si, gi + 1, best)

\* highLevelPathfind(startIsland, goalIsland): an optional sequence of portal indexes
highLevelPathfind(m, startIsland, goalIsland) ==
  LET startPortals == IF startIsland \in DOMAIN m.islandPortalEntries
                      THEN m.islandPortalEntries[startIsland] ELSE <<>>
      goalPortals == IF goalIsland \in DOMAIN m.islandPortalExits
                     THEN m.islandPortalExits[goalIsland] ELSE <<>>
  IN highLevelScan(m, startPortals, goalPortals, 1, 1, [path |-> None, minCost |-> Infinity]).path

RECURSIVE simulatePath(_, _, _)
simulatePath(m, current, path) ==
  IF path = <<>>
  THEN current
  ELSE LET move == generateMove(m, current, path[1], {})
       IN IF move = None THEN current ELSE simulatePath(m, Val(move).targetIdx, Tail(path))

\* getDirectionTowards(startIndex, targetIndex): an optional direction
getDirectionTowards(m, startIndex, targetIndex) ==
  LET dx == fromIndex(m.geometry, targetIndex).x - fromIndex(m.geometry, startIndex).x
      dy == fromIndex(m.geometry, targetIndex).y - fromIndex(m.geometry, startIndex).y
  IN IF dx = 0 /\ dy = 0 THEN None
     ELSE IF dx = 0 THEN (IF dy > 0 THEN Some(Down) ELSE Some(Up))
     ELSE (IF dx > 0 THEN Some(Right) ELSE Some(Left))

\* JavaScript truthiness of an optional number: null and 0 are falsy
truthy(o) == IsSome(o) /\ Val(o) # 0

\* the single-step fallback of generatePlan towards tile `towards`
fallbackPlan(m, startIndex, towards, dyn, targetOf(_)) ==
  LET dir == getDirectionTowards(m, startIndex, towards)
      move == generateMove(m, startIndex, Val(dir), dyn)
  IN IF truthy(dir) /\ IsSome(move)
     THEN Some([targetIndex |-> targetOf(Val(move)), path |-> <<Val(dir)>>, nextActionIndex |-> 0])
     ELSE None

\* generatePlan on one island, given the result of lowLevelPathfind
planOnIsland(m, startIndex, targetIndex, dyn, path) ==
  IF IsSome(path) /\ Len(Val(path)) > 0
  THEN Some([targetIndex |-> simulatePath(m, startIndex, Val(path)),
             path |-> Val(path), nextActionIndex |-> 0])
  ELSE fallbackPlan(m, startIndex, targetIndex, dyn, LAMBDA move : move.targetIdx)

\* generatePlan across islands, given the first portal and the path to it
planToPortal(m, startIndex, targetIndex, dyn, firstPortal, pathToPortal) ==
  IF IsSome(pathToPortal) /\ Len(Val(pathToPortal)) > 0
  THEN Some([targetIndex |-> targetIndex, path |-> Val(pathToPortal), nextActionIndex |-> 0])
  ELSE fallbackPlan(m, startIndex, firstPortal.from, dyn, LAMBDA move : targetIndex)

\* generatePlan across islands, given the result of highLevelPathfind
planAcross(m, startIndex, targetIndex, dyn, portalSequence) ==
  IF portalSequence = None \/ Val(portalSequence) = <<>> THEN None
  ELSE planToPortal(m, startIndex, targetIndex, dyn, m.portals[Val(portalSequence)[1] + 1],
                    lowLevelPathfind(m, startIndex, m.portals[Val(portalSequence)[1] + 1].from, dyn))

\* generatePlan(startIndex, targetIndex, colliders): an optional PathPlan
generatePlan(m, startIndex, targetIndex, dyn) ==
  IF m.islandIndex[startIndex + 1] = -1 \/ m.islandIndex[targetIndex + 1] = -1 THEN None
  ELSE IF m.islandIndex[startIndex + 1] = m.islandIndex[targetIndex + 1]
  THEN planOnIsland(m, startIndex, targetIndex, dyn,
                    lowLevelPathfind(m, startIndex, targetIndex, dyn))
  ELSE planAcross(m, startIndex, targetIndex, dyn,
                  highLevelPathfind(m, m.islandIndex[startIndex + 1], m.islandIndex[targetIndex + 1]))

(***************************************************************************)
(* components.ts and the component ids of the demo world                   *)
(***************************************************************************)
Position == <<"Position">>
FaceDirection == <<"FaceDirection">>
Pending == <<"Pending">>
DynamicCollider == <<"DynamicCollider">>
Move == <<"Move">>
StraightWalk == <<"StraightWalk">>
PathPlan == <<"PathPlan">>
GoalPathfinding == <<"GoalPathfinding">>
Timer == <<"Timer">>
Timeout == <<"Timeout">>
Task == <<"Task">>
TaskCompleted == <<"TaskCompleted">>
PlayerId == <<"PlayerId">>
PlayerStatus == <<"PlayerStatus">>
PlayerInited == <<"PlayerInited">>
Thinking == <<"Thinking">>
\* a second timer category, as a host script may define
TagX == <<"X">>

\* relation(Kind, target): the component id of a relation
relation(kind, target) == kind \o target

\* the targets a Timer or Timeout relation has in the model, in wildcard order
TimerTargets == <<Thinking, TagX>>

\* the components, in the order in which an entity's components are visited
ComponentSeq ==
  << Position, FaceDirection, relation(Pending, FaceDirection), DynamicCollider, Move,
     StraightWalk, PathPlan, GoalPathfinding, PlayerId, PlayerStatus, PlayerInited, Thinking,
     relation(Task, Thinking), relation(TaskCompleted, Thinking),
     relation(Timer, Thinking), relation(Timer, TagX),
     relation(Timeout, Thinking), relation(Timeout, TagX) >>

Components ==
  {Position, FaceDirection, relation(Pending, FaceDirection), DynamicCollider, Move,
   StraightWalk, PathPlan, GoalPathfinding, PlayerId, PlayerStatus, PlayerInited, Thinking,
   relation(Task, Thinking), relation(TaskCompleted, Thinking)}
  \cup {relation(Timer, TimerTargets[i]) : i \in DOMAIN TimerTargets}
  \cup {relation(Timeout, TimerTargets[i]) : i \in DOMAIN TimerTargets}

\* the entities of the model, in the iteration order of a query
EntitySeq == <<1, 2>>
Entities == SeqRange(EntitySeq)

\* the value of a tag component (a component without data)
Tag == TRUE

(***************************************************************************)
(* The ECS world.  set and remove are buffered; queries, get and has read  *)
(* the committed state; sync applies the buffer in call order.             *)
(***************************************************************************)
has(w, e, c) == IsSome(w[e][c])
get(w, e, c) == Val(w[e][c])

setCmd(e, c, v) == [op |-> "set", e |-> e, c |-> c, v |-> Some(v)]
removeCmd(e, c) == [op |-> "remove", e |-> e, c |-> c, v |-> None]

\* createQuery(required, {negativeComponentTypes}): the matching entities in order
query(w, required, negative) ==
  SelectSeq(EntitySeq, LAMBDA e : /\ \A c \in required : has(w, e, c)
                                  /\ \A c \in negative : ~has(w, e, c))

\* the Task relation whose hooks the TaskManager of SimpleAIPass installs
TaskRel == relation(Task, Thinking)

\* one buffered command applied by sync: st = [world, tasks]
\* sync without the on_remove hook: a removed Task relation leaves the handle
applyCmdUnhooked(st, cmd) ==
  LET present == has(st.world, cmd.e, cmd.c)
  IN IF cmd.op = "set"
     THEN IF cmd.c = TaskRel /\ ~present /\ st.tasks[cmd.e] = None
          THEN st
          ELSE [st EXCEPT !.world[cmd.e][cmd.c] = cmd.v]
     ELSE IF ~present THEN st
     ELSE [st EXCEPT !.world[cmd.e][cmd.c] = None]

applyCmd(st, cmd) ==
  LET present == has(st.world, cmd.e, cmd.c)
  IN IF cmd.op = "set"
     THEN IF cmd.c = TaskRel /\ ~present /\ st.tasks[cmd.e] = None
          \* on_init without a registered handle: the relation is removed again
          THEN st
          ELSE [st EXCEPT !.world[cmd.e][cmd.c] = cmd.v]
     ELSE IF ~present THEN st
     ELSE IF cmd.c = TaskRel
          \* on_remove: the handle is aborted and forgotten
          THEN [world |-> [st.world EXCEPT ![cmd.e][cmd.c] = None],
                tasks |-> [st.tasks EXCEPT ![cmd.e] = None]]
          ELSE [st EXCEPT !.world[cmd.e][cmd.c] = None]

RECURSIVE applyCmds(_, _)
applyCmds(st, cs) == IF cs = <<>> THEN st ELSE applyCmds(applyCmd(st, cs[1]), Tail(cs))

\* world.sync(): [world, tasks] after the buffer cs has been applied
sync(w, tk, cs) == applyCmds([world |-> w, tasks |-> tk], cs)

\* commands of a forEach: the callback's commands for every entity, in order
forEach(es, callback(_)) == Flatten([i \in 1..Len(es) |-> callback(es[i])])

(***************************************************************************)
(* The passes.  Each <Name>Cmds operator is the run() of the pass: the     *)
(* commands it buffers (and, where it marks tiles, the bitset it leaves).  *)
(***************************************************************************)
\* PendingPass whose query does not exclude the entities with a Move
PendingPassCmdsMoving(w) ==
  forEach(query(w, {relation(Pending, FaceDirection)}, {}),
          LAMBDA entity : << setCmd(entity, FaceDirection, get(w, entity, relation(Pending, FaceDirection))),
                             removeCmd(entity, relation(Pending, FaceDirection)) >>)

\* passes/pending.ts
PendingPassCmds(w) ==
  forEach(query(w, {relation(Pending, FaceDirection)}, {Move}),
          LAMBDA entity : << setCmd(entity, FaceDirection, get(w, entity, relation(Pending, FaceDirection))),
                             removeCmd(entity, relation(Pending, FaceDirection)) >>)

\* TimerPass setting the Timeout of an expired timer without removing the Timer
timerCmdsKeep(w, entity, type) ==
  IF ~has(w, entity, relation(Timer, type)) THEN <<>>
  ELSE IF get(w, entity, relation(Timer, type)) > 0
       THEN << setCmd(entity, relation(Timer, type), get(w, entity, relation(Timer, type)) - 1) >>
       ELSE << setCmd(entity, relation(Timeout, type), Tag) >>

\* passes/timer.ts: the callback for one (type, remaining) pair of an entity
timerCmds(w, entity, type) ==
  IF ~has(w, entity, relation(Timer, type)) THEN <<>>
  ELSE IF get(w, entity, relation(Timer, type)) > 0
       THEN << setCmd(entity, relation(Timer, type), get(w, entity, relation(Timer, type)) - 1) >>
       ELSE << removeCmd(entity, relation(Timer, type)),
               setCmd(entity, relation(Timeout, type), Tag) >>

\* TimerPass counting down only the first Timer relation of the wildcard
TimerPassCmdsFirst(w) ==
  forEach(EntitySeq, LAMBDA entity : timerCmds(w, entity, TimerTargets[1]))

TimerPassCmds(w) ==
  forEach(EntitySeq,
          LAMBDA entity : Flatten([i \in 1..Len(TimerTargets) |-> timerCmds(w, entity, TimerTargets[i])]))

\* passes/dynamic-collider.ts: the bitset after reset and the two scans
positionIndex(m, pos) == toIndex(m.geometry, pos.x, pos.y)

\* a reset that leaves the bits as they are
resetKeep(bits) == bits

\* BitSet.reset(), or the new BitSet of the first run: no bit is set
reset(bits) == {}

DynamicColliderPassRun(m, w) ==
  {positionIndex(m, get(w, e, Position)) :
     e \in {e \in Entities : /\ has(w, e, DynamicCollider) /\ has(w, e, Position)
                             /\ inBounds(m.geometry, get(w, e, Position).x, get(w, e, Position).y)}}
  \cup {get(w, e, Move).targetIdx : e \in {e \in Entities : has(w, e, DynamicCollider) /\ has(w, e, Move)}}

\* MovementPass completing a move only when no tick remains
movementCmdsAtZero(m, w, entity) ==
  IF get(w, entity, Move).remainingTicks - 1 <= 0
  THEN << setCmd(entity, Position, fromIndex(m.geometry, get(w, entity, Move).targetIdx)),
          removeCmd(entity, Move) >>
  ELSE << setCmd(entity, Move,
                 [get(w, entity, Move) EXCEPT !.remainingTicks = get(w, entity, Move).remainingTicks - 1]) >>

\* passes/movement.ts: the callback for one entity holding a Move
movementCmds(m, w, entity) ==
  LET move == get(w, entity, Move)
      remainingTicks == move.remainingTicks - 1
  IN IF remainingTicks <= 1
     THEN << setCmd(entity, Position, fromIndex(m.geometry, move.targetIdx)),
             removeCmd(entity, Move) >>
     ELSE << setCmd(entity, Move, [move EXCEPT !.remainingTicks = remainingTicks]) >>

MovementPassCmds(m, w) ==
  forEach(query(w, {Move}, {}), LAMBDA entity : movementCmds(m, w, entity))

\* PathFindingPass giving up in the tick in which retryCount reaches maxRetries
planCmdsEager(entity, goal, generatedPlan) ==
  IF IsSome(generatedPlan)
  THEN << setCmd(entity, PathPlan, Val(generatedPlan)),
          setCmd(entity, GoalPathfinding, [goal EXCEPT !.retryCount = 0]) >>
  ELSE IF goal.retryCount + 1 < goal.maxRetries
  THEN << setCmd(entity, GoalPathfinding, [goal EXCEPT !.retryCount = goal.retryCount + 1]) >>
  ELSE << removeCmd(entity, GoalPathfinding) >>

\* passes/path-finding.ts: the callback of run once generatePlan has returned
\* a pass that never gives a goal up: every failure is counted
planCmdsPatient(entity, goal, generatedPlan) ==
  IF IsSome(generatedPlan)
  THEN << setCmd(entity, PathPlan, Val(generatedPlan)),
          setCmd(entity, GoalPathfinding, [goal EXCEPT !.retryCount = 0]) >>
  ELSE << setCmd(entity, GoalPathfinding, [goal EXCEPT !.retryCount = goal.retryCount + 1]) >>

planCmds(entity, goal, generatedPlan) ==
  IF IsSome(generatedPlan)
  THEN << setCmd(entity, PathPlan, Val(generatedPlan)),
          setCmd(entity, GoalPathfinding, [goal EXCEPT !.retryCount = 0]) >>
  ELSE IF goal.retryCount < goal.maxRetries
  THEN << setCmd(entity, GoalPathfinding, [goal EXCEPT !.retryCount = goal.retryCount + 1]) >>
  ELSE << removeCmd(entity, GoalPathfinding) >>

\* passes/path-finding.ts: the callback of run for one entity
pathFindingCmds(m, w, dyn, entity) ==
  IF positionIndex(m, get(w, entity, Position)) = get(w, entity, GoalPathfinding).targetIndex
  THEN << removeCmd(entity, GoalPathfinding) >>
  ELSE planCmds(entity, get(w, entity, GoalPathfinding),
                generatePlan(m, positionIndex(m, get(w, entity, Position)),
                             get(w, entity, GoalPathfinding).targetIndex, dyn))

PathFindingPassCmds(m, w, dyn) ==
  forEach(query(w, {Position, GoalPathfinding}, {PathPlan}),
          LAMBDA entity : pathFindingCmds(m, w, dyn, entity))

\* PlanExecutionPass keeping the PathPlan of a blocked step
planExecutionStepKeep(m, w, dyn, entity) ==
  LET pathPlan == get(w, entity, PathPlan)
      currentIdx == positionIndex(m, get(w, entity, Position))
      pathAt(i) == IF i < Len(pathPlan.path) THEN Some(pathPlan.path[i + 1]) ELSE None
      actionIdx == IF pathAt(pathPlan.nextActionIndex) = Some(currentIdx)
                   THEN pathPlan.nextActionIndex + 1
                   ELSE pathPlan.nextActionIndex
      direction == Val(pathAt(actionIdx))
      move == generateMove(m, currentIdx, direction, dyn)
  IN IF pathPlan.nextActionIndex >= Len(pathPlan.path)
     THEN [cmds |-> << removeCmd(entity, PathPlan) >>, colliders |-> dyn]
     ELSE IF actionIdx >= Len(pathPlan.path)
     THEN [cmds |-> << removeCmd(entity, PathPlan) >>, colliders |-> dyn]
     ELSE IF IsSome(move)
     THEN [cmds |-> << setCmd(entity, Move, Val(move)),
                       setCmd(entity, FaceDirection, direction),
                       setCmd(entity, PathPlan, [pathPlan EXCEPT !.nextActionIndex = actionIdx + 1]) >>,
           colliders |-> dyn \cup {Val(move).targetIdx}]
     ELSE [cmds |-> <<>>, colliders |-> dyn]

\* passes/plan-execution.ts: the callback of run for one entity; the result
\* is [cmds, colliders] with the bitset as the callback leaves it
planExecutionStep(m, w, dyn, entity) ==
  LET pathPlan == get(w, entity, PathPlan)
      currentIdx == positionIndex(m, get(w, entity, Position))
      \* path[i] of the source (undefined beyond the end)
      pathAt(i) == IF i < Len(pathPlan.path) THEN Some(pathPlan.path[i + 1]) ELSE None
      actionIdx == IF pathAt(pathPlan.nextActionIndex) = Some(currentIdx)
                   THEN pathPlan.nextActionIndex + 1
                   ELSE pathPlan.nextActionIndex
      direction == Val(pathAt(actionIdx))
      move == generateMove(m, currentIdx, direction, dyn)
  IN IF pathPlan.nextActionIndex >= Len(pathPlan.path)
     THEN [cmds |-> << removeCmd(entity, PathPlan) >>, colliders |-> dyn]
     ELSE IF actionIdx >= Len(pathPlan.path)
     THEN [cmds |-> << removeCmd(entity, PathPlan) >>, colliders |-> dyn]
     ELSE IF IsSome(move)
     THEN [cmds |-> << setCmd(entity, Move, Val(move)),
                       setCmd(entity, FaceDirection, direction),
                       setCmd(entity, PathPlan, [pathPlan EXCEPT !.nextActionIndex = actionIdx + 1]) >>,
           colliders |-> dyn \cup {Val(move).targetIdx}]
     ELSE [cmds |-> << removeCmd(entity, PathPlan) >>, colliders |-> dyn]

\* the forEach of run: the callbacks are chained through the bitset they mark
RECURSIVE planExecutionFrom(_, _, _, _)
planExecutionFrom(m, w, es, dyn) ==
  IF es = <<>>
  THEN [cmds |-> <<>>, colliders |-> dyn]
  ELSE LET first == planExecutionStep(m, w, dyn, es[1])
           rest == planExecutionFrom(m, w, Tail(es), first.colliders)
       IN [cmds |-> first.cmds \o rest.cmds, colliders |-> rest.colliders]

PlanExecutionPassRun(m, w, dyn) ==
  planExecutionFrom(m, w, query(w, {PathPlan, Position}, {Move}), dyn)

\* passes/straight-walk.ts: the callback of run for one entity
\* StraightWalkPass starting a step without counting it
straightWalkStepKeep(m, w, dyn, entity) ==
  IF get(w, entity, StraightWalk).remainingDistance > 0
     /\ IsSome(generateMove(m, positionIndex(m, get(w, entity, Position)),
                            get(w, entity, StraightWalk).direction, dyn))
  THEN [cmds |-> << setCmd(entity, Move,
                           Val(generateMove(m, positionIndex(m, get(w, entity, Position)),
                                            get(w, entity, StraightWalk).direction, dyn))) >>,
        colliders |-> dyn]
  ELSE [cmds |-> << removeCmd(entity, StraightWalk) >>, colliders |-> dyn]

straightWalkStep(m, w, dyn, entity) ==
  LET straightWalk == get(w, entity, StraightWalk)
      currentIdx == positionIndex(m, get(w, entity, Position))
      move == generateMove(m, currentIdx, straightWalk.direction, dyn)
  IN IF straightWalk.remainingDistance > 0 /\ IsSome(move)
     THEN [cmds |-> << setCmd(entity, Move, Val(move)),
                       setCmd(entity, FaceDirection, straightWalk.direction),
                       setCmd(entity, StraightWalk,
                              [straightWalk EXCEPT !.remainingDistance = straightWalk.remainingDistance - 1]) >>,
           colliders |-> dyn \cup {Val(move).targetIdx}]
     ELSE [cmds |-> << removeCmd(entity, StraightWalk) >>, colliders |-> dyn]

RECURSIVE straightWalkFrom(_, _, _, _)
straightWalkFrom(m, w, es, dyn) ==
  IF es = <<>>
  THEN [cmds |-> <<>>, colliders |-> dyn]
  ELSE LET first == straightWalkStep(m, w, dyn, es[1])
           rest == straightWalkFrom(m, w, Tail(es), first.colliders)
       IN [cmds |-> first.cmds \o rest.cmds, colliders |-> rest.colliders]

\* StraightWalkPass with a query that lacks the negative Move filter
StraightWalkPassRunAnyMove(m, w, dyn) ==
  straightWalkFrom(m, w, query(w, {Position, StraightWalk}, {}), dyn)

StraightWalkPassRun(m, w, dyn) ==
  straightWalkFrom(m, w, query(w, {Position, StraightWalk}, {Move}), dyn)

(***************************************************************************)
(* The demo world: InitPlayerPass, SimpleAIPass and task.ts (TaskManager). *)
(* The random choices of a run are the arguments of the operators.         *)
(***************************************************************************)
initPlayerQuery(w) == query(w, {PlayerId}, {PlayerInited})

\* InitPlayerPass.run: point[e] and direction[e] are the two randomSelect results
InitPlayerPassCmds(w, point, direction) ==
  forEach(initPlayerQuery(w),
          LAMBDA entity : << setCmd(entity, Position, point[entity]),
                             setCmd(entity, FaceDirection, direction[entity]),
                             setCmd(entity, DynamicCollider, Tag),
                             setCmd(entity, PlayerInited, Tag) >>)

\* an idle query that does not exclude entities that are thinking already
noActionQueryThinking(w) ==
  query(w, {PlayerInited, PlayerId}, {Move, StraightWalk, PathPlan, GoalPathfinding})

\* an idle query that does not exclude entities that are on the move
noActionQueryWalking(w) ==
  query(w, {PlayerInited, PlayerId}, {Thinking})

noActionQuery(w) ==
  query(w, {PlayerInited, PlayerId}, {Move, StraightWalk, PathPlan, GoalPathfinding, Thinking})

\* a step-B query that still asks for the Task relation
startThinkingQueryWithTask(w) ==
  query(w, {PlayerId, Thinking, relation(Task, Thinking), relation(TaskCompleted, Thinking)},
        {relation(Timer, Thinking), relation(Timeout, Thinking)})

startThinkingQuery(w) ==
  query(w, {PlayerId, Thinking, relation(TaskCompleted, Thinking)},
        {relation(Timer, Thinking), relation(Timeout, Thinking)})

timeoutQuery(w) == query(w, {Thinking, PlayerId, relation(Timeout, Thinking)}, {})

\* SimpleAIPass.run, the commands of steps A, B and C; ticks[e], dir[e] and
\* dist[e] are the results of randomInt, randomSelect and randomInt
SimpleAIPassCmds(w, ticks, dir, dist) ==
  forEach(noActionQuery(w),
          LAMBDA entity : << setCmd(entity, Thinking, Tag),
                             setCmd(entity, PlayerStatus, "thinking"),
                             \* TaskManager.start
                             setCmd(entity, relation(Task, Thinking), Tag) >>)
  \o forEach(startThinkingQuery(w),
             LAMBDA entity : << setCmd(entity, PlayerStatus, "tip"),
                                setCmd(entity, relation(Timer, Thinking), ticks[entity]) >>)
  \o forEach(timeoutQuery(w),
             LAMBDA entity : << removeCmd(entity, PlayerStatus),
                                removeCmd(entity, Thinking),
                                removeCmd(entity, relation(Task, Thinking)),
                                removeCmd(entity, relation(TaskCompleted, Thinking)),
                                removeCmd(entity, relation(Timeout, Thinking)),
                                setCmd(entity, StraightWalk,
                                       [direction |-> dir[entity], remainingDistance |-> dist[entity]]) >>)

\* SimpleAIPass announcing the thinking already when step A starts the task
SimpleAIPassEventsEarly(w) ==
  [i \in 1..Len(noActionQuery(w)) |->
     [type |-> "thinking:start", playerId |-> get(w, noActionQuery(w)[i], PlayerId)]]
  \o [i \in 1..Len(startThinkingQuery(w)) |->
        [type |-> "thinking:start", playerId |-> get(w, startThinkingQuery(w)[i], PlayerId)]]
  \o [i \in 1..Len(timeoutQuery(w)) |->
        [type |-> "thinking:end", playerId |-> get(w, timeoutQuery(w)[i], PlayerId)]]

\* the platform events of one run: thinking:start in step B, thinking:end in step C
SimpleAIPassEvents(w) ==
  [i \in 1..Len(startThinkingQuery(w)) |->
     [type |-> "thinking:start", playerId |-> get(w, startThinkingQuery(w)[i], PlayerId)]]
  \o [i \in 1..Len(timeoutQuery(w)) |->
        [type |-> "thinking:end", playerId |-> get(w, timeoutQuery(w)[i], PlayerId)]]

\* TaskManager.start in step A: the handles registered, and the host timers
\* whose callback is task.complete(); a handle is identified by a number
RECURSIVE startTasks(_, _, _, _)
startTasks(es, tk, tm, gen) ==
  IF es = <<>>
  THEN [tasks |-> tk, timers |-> tm, nextGen |-> gen]
  ELSE startTasks(Tail(es), [tk EXCEPT ![es[1]] = Some(gen)],
                  tm \cup {[e |-> es[1], gen |-> gen, age |-> 0]}, gen + 1)

\* complete() without its world.sync(): the two mutations stay buffered
completeUnsynced(w, tk, cs, entity) ==
  IF tk[entity] = None
  THEN [world |-> w, tasks |-> tk, cmds |-> cs]
  ELSE [world |-> w, tasks |-> [tk EXCEPT ![entity] = None],
        cmds |-> cs \o << removeCmd(entity, relation(Task, Thinking)),
                          setCmd(entity, relation(TaskCompleted, Thinking), Tag) >>]

\* the complete() returned by TaskManager.start(entity): [world, tasks]
complete(w, tk, cs, entity) ==
  IF tk[entity] = None
  THEN [world |-> w, tasks |-> tk, cmds |-> cs]
  ELSE LET st == sync(w, tk, cs \o << removeCmd(entity, relation(Task, Thinking)),
                                      setCmd(entity, relation(TaskCompleted, Thinking), Tag) >>)
       IN [world |-> st.world, tasks |-> [st.tasks EXCEPT ![entity] = None], cmds |-> <<>>]

(***************************************************************************)
(* The worlds the model starts from: the maps of the scenarios and a few   *)
(* more, with one or two entities as a host or a restored snapshot leaves  *)
(* them before the first tick.                                             *)
(***************************************************************************)
Geometry(w, h) == [width |-> w, height |-> h]

MapS1 == GridMap(Geometry(3, 1), <<Normal, Normal, Normal>>, <<>>)
MapS2 == GridMap(Geometry(2, 1), <<Normal, Fast>>, <<>>)
MapS3 == GridMap(Geometry(5, 1), <<Normal, Normal, Normal, Normal, Normal>>,
                 << [from |-> 2, to |-> 4, direction |-> Some(Right)] >>)
MapS4 == GridMap(Geometry(3, 3),
                 <<Normal, Normal, Normal, Normal, Normal, Normal, Normal, Normal, Normal>>, <<>>)
\* a portal that leads onto an obstacle
MapPit == GridMap(Geometry(3, 1), <<Normal, Normal, Obstacle>>,
                  << [from |-> 1, to |-> 2, direction |-> Some(Right)] >>)
\* two islands without a portal between them
MapGap == GridMap(Geometry(3, 1), <<Normal, Obstacle, Normal>>, <<>>)
\* obstacles and fast tiles
MapMix == GridMap(Geometry(3, 2), <<Normal, Fast, Normal, Normal, Obstacle, Fast>>, <<>>)

walkable(m) == {i \in 0..(tileCount(m.geometry) - 1) : ~isObstacle(m, i)}

NoEntity == [c \in Components |-> None]
with(ent, c, v) == [ent EXCEPT ![c] = Some(v)]
at(m, idx) == with(NoEntity, Position, fromIndex(m.geometry, idx))
collider(ent) == with(ent, DynamicCollider, Tag)

walker(m, idx, d, n) ==
  with(with(collider(at(m, idx)), FaceDirection, d),
       StraightWalk, [direction |-> d, remainingDistance |-> n])
\* an entity restored in the middle of a step onto tile target
mover(m, idx, target, remaining) ==
  with(collider(at(m, idx)), Move,
       [totalTicks |-> getCost(m, target), remainingTicks |-> remaining,
        targetIdx |-> target, targetPosition |-> fromIndex(m.geometry, target)])
seeker(m, idx, target, maxRetries) ==
  with(collider(at(m, idx)), GoalPathfinding,
       [targetIndex |-> target, retryCount |-> 0, maxRetries |-> maxRetries])
player(id) == with(NoEntity, PlayerId, id)

\* the options of SimpleAIPass: the ranges of the random draws, and whether
\* the injected random functions are the deterministic ones of the tests
Options(spawn, det) ==
  [minWaitTicks |-> 1, maxWaitTicks |-> MaxTimer + 1,
   minWalkDistance |-> 1, maxWalkDistance |-> MaxWalk + 1,
   spawnPoints |-> spawn, deterministic |-> det]

\* the options of the AI loop tests: wait range [3,5], walk range [2,3],
\* randomInt returning min and randomSelect the first element
TestOptions(spawn) ==
  [minWaitTicks |-> 3, maxWaitTicks |-> 5,
   minWalkDistance |-> 2, maxWalkDistance |-> 3,
   spawnPoints |-> spawn, deterministic |-> TRUE]

Scenario(m, e1, e2, o) == [map |-> m, world |-> [e \in Entities |-> IF e = 1 THEN e1 ELSE e2], opts |-> o]

NoAI == Options(<<>>, FALSE)

WalkScenarios ==
  {Scenario(m, walker(m, 0, d, n), e2, NoAI) :
     m \in {MapS1, MapS2}, d \in Directions, n \in 0..MaxWalk,
     e2 \in {NoEntity, collider(with(NoEntity, Position, [x |-> 1, y |-> 0]))}}
  \cup {Scenario(m, walker(m, idx, d, n), NoEntity, NoAI) :
          m \in {MapMix}, idx \in {0, 1, 2, 3, 5}, d \in Directions, n \in 0..MaxWalk}
  \cup {Scenario(m, walker(m, 0, Right, MaxWalk), walker(m, 2, d, n), NoAI) :
          m \in {MapS1}, d \in {Left, Right}, n \in 1..MaxWalk}

GoalScenarios ==
  {Scenario(m, seeker(m, idx, target, r), NoEntity, NoAI) :
     m \in {MapS3}, idx \in {0, 1, 2}, target \in 0..4, r \in 0..MaxRetries}
  \cup {Scenario(m, seeker(m, idx, target, r), NoEntity, NoAI) :
          m \in {MapGap}, idx \in {0, 2}, target \in 0..2, r \in 0..MaxRetries}
  \cup {Scenario(m, seeker(m, idx, target, MaxRetries), e2, NoAI) :
          m \in {MapS4}, idx \in {0, 3, 4}, target \in {0, 2, 5, 8},
          e2 \in {NoEntity, collider(with(NoEntity, Position, [x |-> 2, y |-> 1])),
                  collider(with(NoEntity, Position, [x |-> 1, y |-> 1]))}}
  \cup {Scenario(m, seeker(m, idx, target, r), NoEntity, NoAI) :
          m \in {MapMix}, idx \in {0, 3}, target \in 0..5, r \in {0, MaxRetries}}
  \cup {Scenario(m, seeker(m, 0, 2, MaxRetries), mover(m, 1, 2, remaining), NoAI) :
          m \in {MapS1}, remaining \in 2..4}

timed(v, t) ==
  IF t < 0 THEN with(NoEntity, relation(Timer, TagX), v)
  ELSE with(with(NoEntity, relation(Timer, TagX), v), relation(Timer, Thinking), t)

TimerScenarios ==
  {Scenario(m, timed(v, t), e2, NoAI) :
     m \in {MapS1}, v \in 0..MaxTimer, t \in -1..MaxTimer,
     e2 \in {NoEntity, timed(MaxTimer, -1),
             with(NoEntity, StraightWalk, [direction |-> Right, remainingDistance |-> 1])}}

PlayerScenarios ==
  {Scenario(m, player("p1"), e2, Options(spawn, e2 # NoEntity)) :
     m \in {MapS4}, e2 \in {NoEntity, player("p2")},
     spawn \in {<< [x |-> 1, y |-> 1] >>, << [x |-> 1, y |-> 1], [x |-> 0, y |-> 0] >>}}
  \cup {Scenario(m, player("p1"), NoEntity, TestOptions(<< [x |-> 1, y |-> 1] >>)) : m \in {MapS4}}

\* an entity facing f with a pending reorientation to d
turning(ent, f, d) == with(with(ent, FaceDirection, f), relation(Pending, FaceDirection), d)

\* entities told to turn while standing, while in the middle of a step, or
\* with a walk about to start
PendingScenarios ==
  {Scenario(MapS1, turning(e1, f, d), e2, NoAI) :
     f \in Directions, d \in Directions,
     e1 \in {collider(at(MapS1, 0)), mover(MapS1, 0, 1, 2), mover(MapS1, 0, 1, 3),
             walker(MapS1, 0, Right, 1)},
     e2 \in {NoEntity, turning(mover(MapS1, 2, 1, 1), Left, Up)}}

\* an entity on tile idx that holds a plan made earlier
planner(m, idx, path, target) ==
  with(collider(at(m, idx)), PathPlan, [path |-> path, targetIndex |-> target, nextActionIndex |-> 0])

\* plans whose steps lead onto tiles that other entities occupy or want
PlanScenarios ==
  {Scenario(MapS1, planner(MapS1, 0, <<Right, Right>>, 2), e2, NoAI) :
     e2 \in {NoEntity, collider(at(MapS1, 1)), collider(at(MapS1, 2)),
             planner(MapS1, 2, <<Left, Up>>, 1)}}
  \cup {Scenario(MapS4, planner(MapS4, 4, path, 8), e2, NoAI) :
          path \in {<<Right, Down>>, <<Down, Right>>, <<Up, Left, Down>>},
          e2 \in {NoEntity, collider(at(MapS4, 5)), mover(MapS4, 8, 7, 2)}}

\* a walk or a pursuit through the portal of MapS3 (tile 2 to tile 4) while
\* another entity stands on the portal's destination or next to it
PortalScenarios ==
  {Scenario(MapS3, e1, e2, NoAI) :
     e1 \in {walker(MapS3, 1, Right, 1), walker(MapS3, 0, Right, MaxWalk), seeker(MapS3, 1, 4, 1)},
     e2 \in {collider(at(MapS3, 4)), collider(at(MapS3, 3)), walker(MapS3, 4, Left, 1)}}
  \cup {Scenario(MapPit, walker(MapPit, idx, Right, n), NoEntity, NoAI) : idx \in {0, 1}, n \in 1..MaxWalk}

Scenarios ==
  WalkScenarios \cup GoalScenarios \cup TimerScenarios \cup PlayerScenarios \cup PendingScenarios
  \cup PlanScenarios \cup PortalScenarios

(***************************************************************************)
(* The state machine.  A tick runs the passes in pipeline order (pc is the *)
(* pass to run next); the host timers of the tasks fire between ticks.     *)
(***************************************************************************)
\* the longest a host timer is late, in ticks
MaxDelay == 2

Pipeline ==
  << "PendingPass", "TimerPass", "DynamicColliderPass", "MovementPass", "PathFindingPass",
     "PlanExecutionPass", "StraightWalkPass", "InitPlayerPass", "SimpleAIPass", "sync" >>

next(p) == Pipeline[(CHOOSE i \in DOMAIN Pipeline : Pipeline[i] = p) + 1]

\* some pass has work to do on the committed world
active(w) ==
  \E e \in Entities :
    \/ \E c \in {Move, StraightWalk, PathPlan, GoalPathfinding, PlayerId,
                 relation(Pending, FaceDirection)} : has(w, e, c)
    \/ \E i \in DOMAIN TimerTargets : has(w, e, relation(Timer, TimerTargets[i]))

\* the results a random function may give for the entities es of a query
choices(es, results) == [SeqRange(es) -> results]

\* a random function that always returns the largest value of the range
randomIntLargest(o, min, max) == IF max <= min THEN {min} ELSE {max - 1}

\* randomInt(min, max) is floor(random() * (max - min)) + min
randomInt(o, min, max) ==
  IF o.deterministic \/ max <= min THEN {min} ELSE min..(max - 1)
randomSelect(o, arr) == IF o.deterministic THEN {arr[1]} ELSE SeqRange(arr)

Init ==
  \E sc \in Scenarios :
    /\ map = sc.map
    /\ opts = sc.opts
    /\ world = sc.world
    /\ cmds = <<>>
    /\ colliders = {}
    /\ tasks = [e \in Entities |-> None]
    /\ timers = {}
    /\ nextGen = 1
    /\ events = <<>>
    /\ pc = "PendingPass"
    /\ tick = 0
    /\ initial = sc.world
    /\ args = None
    /\ ret = None
    /\ lastMove = [e \in Entities |-> None]
    /\ nextEntity = Len(EntitySeq) + 1
    /\ heap = EmptyHeap
    /\ pushed = <<>>

\* a pass that only buffers commands
pass(name, newCmds) ==
  /\ pc = name
  /\ cmds' = cmds \o newCmds
  /\ pc' = next(name)

PendingPassStep ==
  /\ tick < MaxTick
  /\ active(world)
  /\ \A t \in timers : t.age < MaxDelay
  /\ pass("PendingPass", PendingPassCmds(world))
  /\ UNCHANGED <<heap, pushed, lastMove, nextEntity, initial, args, ret, map, opts, world, colliders, tasks, timers, nextGen, events, tick>>

TimerPassStep ==
  /\ pass("TimerPass", TimerPassCmds(world))
  /\ UNCHANGED <<heap, pushed, lastMove, nextEntity, initial, args, ret, map, opts, world, colliders, tasks, timers, nextGen, events, tick>>

DynamicColliderPassStep ==
  /\ pass("DynamicColliderPass", <<>>)
  /\ colliders' = reset(colliders) \cup DynamicColliderPassRun(map, world)
  /\ UNCHANGED <<heap, pushed, lastMove, nextEntity, initial, args, ret, map, opts, world, tasks, timers, nextGen, events, tick>>

MovementPassStep ==
  /\ pass("MovementPass", MovementPassCmds(map, world))
  /\ UNCHANGED <<heap, pushed, lastMove, nextEntity, initial, args, ret, map, opts, world, colliders, tasks, timers, nextGen, events, tick>>

PathFindingPassStep ==
  /\ pass("PathFindingPass", PathFindingPassCmds(map, world, colliders))
  /\ UNCHANGED <<heap, pushed, lastMove, nextEntity, initial, args, ret, map, opts, world, colliders, tasks, timers, nextGen, events, tick>>

PlanExecutionPassStep ==
  /\ pass("PlanExecutionPass", PlanExecutionPassRun(map, world, colliders).cmds)
  /\ colliders' = PlanExecutionPassRun(map, world, colliders).colliders
  /\ UNCHANGED <<heap, pushed, lastMove, nextEntity, initial, args, ret, map, opts, world, tasks, timers, nextGen, events, tick>>

StraightWalkPassStep ==
  /\ pass("StraightWalkPass", StraightWalkPassRun(map, world, colliders).cmds)
  /\ colliders' = StraightWalkPassRun(map, world, colliders).colliders
  /\ UNCHANGED <<heap, pushed, lastMove, nextEntity, initial, args, ret, map, opts, world, tasks, timers, nextGen, events, tick>>

InitPlayerPassStep ==
  /\ \E point \in choices(initPlayerQuery(world), randomSelect(opts, opts.spawnPoints)),
        direction \in choices(initPlayerQuery(world), randomSelect(opts, <<Up, Down, Left, Right>>)) :
       pass("InitPlayerPass", InitPlayerPassCmds(world, point, direction))
  /\ UNCHANGED <<heap, pushed, lastMove, nextEntity, initial, args, ret, map, opts, world, colliders, tasks, timers, nextGen, events, tick>>

SimpleAIPassStep ==
  /\ \E ticks \in choices(startThinkingQuery(world),
                          randomInt(opts, opts.minWaitTicks, opts.maxWaitTicks)),
        dir \in choices(timeoutQuery(world), randomSelect(opts, <<Up, Down, Left, Right>>)),
        dist \in choices(timeoutQuery(world),
                         randomInt(opts, opts.minWalkDistance, opts.maxWalkDistance)) :
       pass("SimpleAIPass", SimpleAIPassCmds(world, ticks, dir, dist))
  /\ LET started == startTasks(noActionQuery(world), tasks, timers, nextGen)
     IN /\ tasks' = started.tasks
        /\ timers' = started.timers
        /\ nextGen' = started.nextGen
  /\ events' = events \o SimpleAIPassEvents(world)
  /\ UNCHANGED <<heap, pushed, lastMove, nextEntity, initial, args, ret, map, opts, world, colliders, tick>>

\* the last pass of the pipeline, world.sync(), which ends the tick
SyncStep ==
  /\ pc = "sync"
  /\ world' = sync(world, tasks, cmds).world
  /\ tasks' = sync(world, tasks, cmds).tasks
  /\ cmds' = <<>>
  /\ timers' = {[t EXCEPT !.age = @ + 1] : t \in timers}
  /\ tick' = tick + 1
  /\ pc' = "PendingPass"
  /\ UNCHANGED <<heap, pushed, lastMove, nextEntity, initial, args, ret, map, opts, colliders, nextGen, events>>

\* a host timer fires between two ticks and runs task.complete()
TimerFire ==
  /\ pc = "PendingPass"
  /\ \E t \in timers :
       /\ t.age >= 1
       /\ timers' = timers \ {t}
       /\ world' = complete(world, tasks, cmds, t.e).world
       /\ tasks' = complete(world, tasks, cmds, t.e).tasks
       /\ cmds' = complete(world, tasks, cmds, t.e).cmds
  /\ UNCHANGED <<heap, pushed, lastMove, nextEntity, initial, args, ret, map, opts, colliders, nextGen, events, pc, tick>>

Next ==
  \/ PendingPassStep
  \/ TimerPassStep
  \/ DynamicColliderPassStep
  \/ MovementPassStep
  \/ PathFindingPassStep
  \/ PlanExecutionPassStep
  \/ StraightWalkPassStep
  \/ InitPlayerPassStep
  \/ SimpleAIPassStep
  \/ SyncStep
  \/ TimerFire

Spec == Init /\ [][Next]_vars

(***************************************************************************)
(* The pipeline run for ever.  The tick number, the event log and the      *)
(* handle numbers are not kept, so that the states are finitely many; the  *)
(* host keeps issuing ticks and every host timer fires after at most       *)
(* MaxDelay ticks.                                                         *)
(***************************************************************************)
\* one player with random draws, two players with the deterministic ones
LiveScenarios ==
  {Scenario(m, player("p1"), e2, Options(<< [x |-> 1, y |-> 0], [x |-> 0, y |-> 0] >>, e2 # NoEntity)) :
     m \in {MapS1}, e2 \in {NoEntity, player("p2")}}

InitLive ==
  \E sc \in LiveScenarios :
    /\ map = sc.map
    /\ opts = sc.opts
    /\ world = sc.world
    /\ cmds = <<>>
    /\ colliders = {}
    /\ tasks = [e \in Entities |-> None]
    /\ timers = {}
    /\ nextGen = 1
    /\ events = <<>>
    /\ pc = "PendingPass"
    /\ tick = 0
    /\ initial = sc.world
    /\ args = None
    /\ ret = None
    /\ lastMove = [e \in Entities |-> None]
    /\ nextEntity = Len(EntitySeq) + 1
    /\ heap = EmptyHeap
    /\ pushed = <<>>

SimpleAIPassLive ==
  /\ \E ticks \in choices(startThinkingQuery(world),
                          randomInt(opts, opts.minWaitTicks, opts.maxWaitTicks)),
        dir \in choices(timeoutQuery(world), randomSelect(opts, <<Up, Down, Left, Right>>)),
        dist \in choices(timeoutQuery(world),
                         randomInt(opts, opts.minWalkDistance, opts.maxWalkDistance)) :
       pass("SimpleAIPass", SimpleAIPassCmds(world, ticks, dir, dist))
  /\ tasks' = startTasks(noActionQuery(world), tasks, timers, nextGen).tasks
  /\ timers' = startTasks(noActionQuery(world), tasks, timers, nextGen).timers
  /\ UNCHANGED <<heap, pushed, lastMove, nextEntity, initial, args, ret, map, opts, world, colliders, nextGen, events, tick>>

SyncLive ==
  /\ pc = "sync"
  /\ world' = sync(world, tasks, cmds).world
  /\ tasks' = sync(world, tasks, cmds).tasks
  /\ cmds' = <<>>
  /\ timers' = {[t EXCEPT !.age = @ + 1] : t \in timers}
  /\ pc' = "PendingPass"
  /\ UNCHANGED <<heap, pushed, lastMove, nextEntity, initial, args, ret, map, opts, colliders, nextGen, events, tick>>

\* one step of the host's tick() call
TickLive ==
  \/ PendingPassStep
  \/ TimerPassStep
  \/ DynamicColliderPassStep
  \/ MovementPassStep
  \/ PathFindingPassStep
  \/ PlanExecutionPassStep
  \/ StraightWalkPassStep
  \/ InitPlayerPassStep
  \/ SimpleAIPassLive
  \/ SyncLive

NextLive == TickLive \/ TimerFire

SpecLive == InitLive /\ [][NextLive]_vars /\ WF_vars(TickLive) /\ WF_vars(TimerFire)

(***************************************************************************)
(* The search of PathFindingPass called on its own: lowLevelPathfind on    *)
(* every map of a few small sizes without portals, for every pair of       *)
(* tiles, without dynamic colliders.                                       *)
(***************************************************************************)
Geometries == {Geometry(2, 1), Geometry(3, 1), Geometry(2, 2)}

PlainMaps ==
  UNION {{GridMap(g, tiles, <<>>) : tiles \in [1..tileCount(g) -> {Obstacle, Normal, Fast}]} :
           g \in Geometries}

InitSearch ==
  \E m \in PlainMaps :
    \E a \in 0..(tileCount(m.geometry) - 1), b \in 0..(tileCount(m.geometry) - 1) :
      /\ map = m
      /\ args = [startIndex |-> a, goalIndex |-> b]
      /\ ret = None
      /\ lastMove = [e \in Entities |-> None]
      /\ nextEntity = Len(EntitySeq) + 1
      /\ heap = EmptyHeap
      /\ pushed = <<>>
      /\ pc = "call"
      /\ opts = NoAI
      /\ world = [e \in Entities |-> NoEntity]
      /\ initial = [e \in Entities |-> NoEntity]
      /\ cmds = <<>>
      /\ colliders = {}
      /\ tasks = [e \in Entities |-> None]
      /\ timers = {}
      /\ nextGen = 1
      /\ events = <<>>
      /\ tick = 0

\* ret holds the optional path that lowLevelPathfind returned
Search ==
  /\ pc = "call"
  /\ ret' = lowLevelPathfind(map, args.startIndex, args.goalIndex, colliders)
  /\ pc' = "return"
  /\ UNCHANGED <<heap, pushed, lastMove, nextEntity, initial, args, map, opts, world, cmds, colliders, tasks, timers, nextGen,
                 events, tick>>

SpecSearch == InitSearch /\ [][Search]_vars

(***************************************************************************)
(* PathFindingPass.run called on its own: one entity with a goal on every  *)
(* map of a few small sizes without portals, for every pair of walkable    *)
(* tiles, with the entity's own tile and at most one more tile marked in   *)
(* the collider bitset.                                                    *)
(***************************************************************************)
\* maps whose islands are joined by portals only: two islands and one
\* portal; three islands in a row with a chain of two portals and a direct
\* portal; two columns with a portal on either tile of the left column
CrossA == GridMap(Geometry(5, 1), <<Normal, Normal, Obstacle, Normal, Normal>>,
                  << [from |-> 1, to |-> 3, direction |-> Some(Right)] >>)
CrossC == GridMap(Geometry(7, 1), <<Normal, Normal, Obstacle, Fast, Normal, Obstacle, Normal>>,
                  << [from |-> 1, to |-> 3, direction |-> Some(Right)],
                     [from |-> 4, to |-> 6, direction |-> Some(Right)],
                     [from |-> 0, to |-> 6, direction |-> Some(Left)] >>)
CrossD == GridMap(Geometry(3, 2), <<Normal, Obstacle, Normal, Normal, Obstacle, Normal>>,
                  << [from |-> 3, to |-> 2, direction |-> Some(Down)],
                     [from |-> 0, to |-> 5, direction |-> None] >>)
CrossMaps == {CrossA, CrossC, CrossD}

InitPlan ==
  \E m \in PlainMaps \cup CrossMaps :
    \E a \in walkable(m), b \in walkable(m) :
      \E dyn \in {{a}} \cup {{a, c} : c \in 0..(tileCount(m.geometry) - 1)} :
        /\ map = m
        /\ args = [startIndex |-> a, goalIndex |-> b]
        /\ ret = None
        /\ lastMove = [e \in Entities |-> None]
        /\ nextEntity = Len(EntitySeq) + 1
        /\ heap = EmptyHeap
        /\ pushed = <<>>
        /\ pc = "run"
        /\ opts = NoAI
        /\ world = [e \in Entities |-> IF e = 1 THEN seeker(m, a, b, MaxRetries) ELSE NoEntity]
        /\ initial = [e \in Entities |-> IF e = 1 THEN seeker(m, a, b, MaxRetries) ELSE NoEntity]
        /\ cmds = <<>>
        /\ colliders = dyn
        /\ tasks = [e \in Entities |-> None]
        /\ timers = {}
        /\ nextGen = 1
        /\ events = <<>>
        /\ tick = 0

\* cmds holds what PathFindingPass.run buffered
PathFindingRun ==
  /\ pc = "run"
  /\ cmds' = cmds \o PathFindingPassCmds(map, world, colliders)
  /\ pc' = "ran"
  /\ UNCHANGED <<heap, pushed, lastMove, nextEntity, initial, args, ret, map, opts, world, colliders, tasks, timers, nextGen,
                 events, tick>>

SpecPlan == InitPlan /\ [][PathFindingRun]_vars

(***************************************************************************)
(* The TaskManager of task.ts on its own, driven by a client that starts a *)
(* task only for an entity without one, may stop it at any time, and by    *)
(* the host, whose timers call complete() at any later time.               *)
(***************************************************************************)
\* the number of handles start() hands out in a run
MaxHandles == 3

InitTask ==
  /\ map = MapS1
  /\ opts = NoAI
  /\ world = [e \in Entities |-> NoEntity]
  /\ initial = [e \in Entities |-> NoEntity]
  /\ cmds = <<>>
  /\ colliders = {}
  /\ tasks = [e \in Entities |-> None]
  /\ timers = {}
  /\ nextGen = 1
  /\ events = <<>>
  /\ pc = "host"
  /\ tick = 0
  /\ args = None
  /\ ret = None
  /\ lastMove = [e \in Entities |-> None]
  /\ nextEntity = Len(EntitySeq) + 1
  /\ heap = EmptyHeap
  /\ pushed = <<>>

\* task = tasks.start(entity); setTimeout(() => task.complete(), delay)
TaskStart ==
  /\ nextGen <= MaxHandles
  /\ \E entity \in Entities :
       /\ tasks[entity] = None
       /\ ~has(world, entity, relation(Task, Thinking))
       /\ tasks' = startTasks(<<entity>>, tasks, timers, nextGen).tasks
       /\ timers' = startTasks(<<entity>>, tasks, timers, nextGen).timers
       /\ nextGen' = startTasks(<<entity>>, tasks, timers, nextGen).nextGen
       /\ cmds' = cmds \o << setCmd(entity, relation(Task, Thinking), Tag) >>
  /\ UNCHANGED <<heap, pushed, lastMove, nextEntity, initial, args, ret, map, opts, world, colliders, events, pc, tick>>

\* tasks.stop(entity)
TaskStop ==
  /\ \E entity \in Entities :
       /\ tasks[entity] # None
       /\ removeCmd(entity, relation(Task, Thinking)) \notin SeqRange(cmds)
       /\ cmds' = cmds \o << removeCmd(entity, Thinking),
                             removeCmd(entity, relation(Task, Thinking)),
                             removeCmd(entity, relation(TaskCompleted, Thinking)) >>
  /\ UNCHANGED <<heap, pushed, lastMove, nextEntity, initial, args, ret, map, opts, world, colliders, tasks, timers, nextGen,
                 events, pc, tick>>

\* world.sync() of the client
TaskSync ==
  /\ cmds # <<>>
  /\ world' = sync(world, tasks, cmds).world
  /\ tasks' = sync(world, tasks, cmds).tasks
  /\ cmds' = <<>>
  /\ UNCHANGED <<heap, pushed, lastMove, nextEntity, initial, args, ret, map, opts, colliders, timers, nextGen, events, pc, tick>>

\* a host timer calls the complete() of the handle it was set up for; args
\* records that handle
TaskComplete ==
  /\ \E t \in timers :
       /\ timers' = timers \ {t}
       /\ args' = Some(t)
       /\ world' = complete(world, tasks, cmds, t.e).world
       /\ tasks' = complete(world, tasks, cmds, t.e).tasks
       /\ cmds' = complete(world, tasks, cmds, t.e).cmds
  /\ UNCHANGED <<heap, pushed, lastMove, nextEntity, initial, ret, map, opts, colliders, nextGen, events, pc, tick>>

NextTask == TaskStart \/ TaskStop \/ TaskSync \/ TaskComplete

SpecTask == InitTask /\ [][NextTask]_vars

(***************************************************************************)
(* The script facade, EcsWorkerApi, driven by a host: setupPlayers between *)
(* two ticks, tick() running the pipeline and exporting the player views,  *)
(* and the timers of the tasks.  The draws are the deterministic ones.     *)
(* The tick number and the event log are not kept, so that the states are  *)
(* finitely many.  world.new() hands out the entity ids in increasing      *)
(* order and never hands one out twice.                                    *)
(***************************************************************************)
\* the rosters a host passes to setupPlayers, in the key order of the object
Rosters == {<<>>, <<"p1">>, <<"p2">>, <<"p1", "p2">>, <<"p2", "p1">>}

\* the last entity of a query that carries PlayerId id
entityOf(w, es, id) ==
  es[CHOOSE i \in DOMAIN es :
       /\ get(w, es[i], PlayerId) = id
       /\ \A j \in DOMAIN es : get(w, es[j], PlayerId) = id => j <= i]

\* #players = createQuery([PlayerId]) and #exports = createQuery([PlayerId, Position, FaceDirection])
playersQuery(w) == query(w, {PlayerId}, {})
exportsQuery(w) == query(w, {PlayerId, Position, FaceDirection}, {})

\* the map existsingPlayers that setupPlayers collects: id -> entity
existsingPlayers(w) ==
  [id \in {get(w, e, PlayerId) : e \in SeqRange(playersQuery(w))} |-> entityOf(w, playersQuery(w), id)]

\* the first loop of setupPlayers over the keys of players;
\* st = [existing, cmds, nextEntity]
RECURSIVE rosterLoop(_, _)
rosterLoop(players, st) ==
  IF players = <<>> THEN st
  ELSE IF players[1] \notin DOMAIN st.existing
       THEN rosterLoop(Tail(players),
                       [st EXCEPT !.cmds = @ \o << setCmd(st.nextEntity, PlayerId, players[1]) >>,
                                  !.nextEntity = @ + 1])
       ELSE rosterLoop(Tail(players),
                       [st EXCEPT !.existing = [id \in DOMAIN @ \ {players[1]} |-> @[id]]])

\* world.delete(entity): every component of the entity is removed at sync
deleteCmds(w, es) ==
  Flatten([i \in 1..Len(es) |->
             [j \in 1..Len(SelectSeq(ComponentSeq, LAMBDA c : has(w, es[i], c))) |->
                removeCmd(es[i], SelectSeq(ComponentSeq, LAMBDA c : has(w, es[i], c))[j])]])

\* the entities left in existsingPlayers after the first loop
leftOver(existing) == SelectSeq(EntitySeq, LAMBDA e : \E id \in DOMAIN existing : existing[id] = e)

\* setupPlayers that creates the missing players and deletes nobody
setupPlayersKeepAll(w, tk, cs, ne, players) ==
  [world |-> sync(w, tk, rosterLoop(players, [existing |-> existsingPlayers(w), cmds |-> cs, nextEntity |-> ne]).cmds).world,
   tasks |-> tk,
   nextEntity |-> rosterLoop(players, [existing |-> existsingPlayers(w), cmds |-> cs, nextEntity |-> ne]).nextEntity]

\* setupPlayers(players): [world, tasks, nextEntity] when it returns
setupPlayersFrom(w, tk, st) ==
  [world |-> sync(w, tk, st.cmds \o deleteCmds(w, leftOver(st.existing))).world,
   tasks |-> sync(w, tk, st.cmds \o deleteCmds(w, leftOver(st.existing))).tasks,
   nextEntity |-> st.nextEntity]

setupPlayers(w, tk, cs, ne, players) ==
  setupPlayersFrom(w, tk, rosterLoop(players, [existing |-> existsingPlayers(w), cmds |-> cs, nextEntity |-> ne]))

\* a view that never reports the just-finished step
moveStateNoSentinel(w, lm, entity) ==
  IF has(w, entity, Move)
  THEN Some([current |-> get(w, entity, Move).totalTicks - get(w, entity, Move).remainingTicks,
             total |-> get(w, entity, Move).totalTicks])
  ELSE None

\* tick(): the move of the view of one exported entity; lm is #lastMove
moveState(w, lm, entity) ==
  IF has(w, entity, Move)
  THEN Some([current |-> get(w, entity, Move).totalTicks - get(w, entity, Move).remainingTicks,
             total |-> get(w, entity, Move).totalTicks])
  ELSE IF lm[entity] # None
       THEN Some([current |-> -1, total |-> Val(lm[entity])])
       ELSE None

PlayerInfo(w, lm, entity) ==
  [x |-> get(w, entity, Position).x, y |-> get(w, entity, Position).y,
   direction |-> get(w, entity, FaceDirection),
   move |-> moveState(w, lm, entity),
   status |-> w[entity][PlayerStatus]]

\* tick(): the record players it returns, and the map moving it keeps
players(w, lm) ==
  [id \in {get(w, e, PlayerId) : e \in SeqRange(exportsQuery(w))} |->
     PlayerInfo(w, lm, entityOf(w, exportsQuery(w), id))]

moving(w) ==
  [e \in Entities |->
     IF e \in SeqRange(exportsQuery(w)) /\ has(w, e, Move)
     THEN Some(get(w, e, Move).totalTicks) ELSE None]

\* the map and options the facade is created with
ApiOptions == Options(<< [x |-> 1, y |-> 2] >>, TRUE)

InitApi ==
  /\ map = MapS4
  /\ opts = ApiOptions
  /\ world = [e \in Entities |-> NoEntity]
  /\ initial = [e \in Entities |-> NoEntity]
  /\ cmds = <<>>
  /\ colliders = {}
  /\ tasks = [e \in Entities |-> None]
  /\ timers = {}
  /\ nextGen = 1
  /\ events = <<>>
  /\ pc = "PendingPass"
  /\ tick = 0
  /\ args = None
  /\ ret = None
  /\ lastMove = [e \in Entities |-> None]
  /\ nextEntity = 1
  /\ heap = EmptyHeap
  /\ pushed = <<>>

\* the host calls setupPlayers(players) between two ticks; args is players
SetupPlayers ==
  /\ pc = "PendingPass"
  /\ \E roster \in Rosters :
       /\ rosterLoop(roster, [existing |-> existsingPlayers(world), cmds |-> cmds,
                              nextEntity |-> nextEntity]).nextEntity <= Len(EntitySeq) + 1
       /\ args' = Some(roster)
       /\ world' = setupPlayers(world, tasks, cmds, nextEntity, roster).world
       /\ tasks' = setupPlayers(world, tasks, cmds, nextEntity, roster).tasks
       /\ nextEntity' = setupPlayers(world, tasks, cmds, nextEntity, roster).nextEntity
  /\ cmds' = <<>>
  /\ UNCHANGED <<heap, pushed, lastMove, initial, ret, map, opts, colliders, timers, nextGen, events, pc, tick>>

\* the end of tick(): the last pass of the pipeline, world.sync(), then the
\* export of the views; ret is the record players of the ScriptTickResult
TickExport ==
  /\ pc = "sync"
  /\ world' = sync(world, tasks, cmds).world
  /\ tasks' = sync(world, tasks, cmds).tasks
  /\ cmds' = <<>>
  /\ timers' = {[t EXCEPT !.age = @ + 1] : t \in timers}
  /\ pc' = "PendingPass"
  /\ ret' = Some(players(sync(world, tasks, cmds).world, lastMove))
  /\ lastMove' = moving(sync(world, tasks, cmds).world)
  /\ UNCHANGED <<heap, pushed, nextEntity, initial, args, map, opts, colliders, nextGen, events, tick>>

NextApi ==
  \/ SetupPlayers
  \/ PendingPassStep
  \/ TimerPassStep
  \/ DynamicColliderPassStep
  \/ MovementPassStep
  \/ PathFindingPassStep
  \/ PlanExecutionPassStep
  \/ StraightWalkPassStep
  \/ InitPlayerPassStep
  \/ SimpleAIPassLive
  \/ TickExport
  \/ TimerFire

SpecApi == InitApi /\ [][NextApi]_vars

(***************************************************************************)
(* Snapshots.  save() encodes world.serialize(), the data tree of the ECS  *)
(* world; create({savedData}) builds a new world from it, a new pipeline   *)
(* with a new TaskManager, and a new EcsWorkerApi.  The host timers of the *)
(* saved script call the complete() of that script's handles, so the new   *)
(* script has none.                                                        *)
(***************************************************************************)
\* the components of one entity as the entries {type, value} of the data tree
componentsOf(w, e) ==
  [j \in 1..Len(SelectSeq(ComponentSeq, LAMBDA c : has(w, e, c))) |->
     [type |-> SelectSeq(ComponentSeq, LAMBDA c : has(w, e, c))[j],
      value |-> get(w, e, SelectSeq(ComponentSeq, LAMBDA c : has(w, e, c))[j])]]

\* world.serialize(): {version, entityManager, entities: [{id, components}]}
serialize(w, ne) ==
  [version |-> 1, entityManager |-> ne,
   entities |-> [i \in 1..Len(SelectSeq(EntitySeq, LAMBDA e : w[e] # NoEntity)) |->
                   [id |-> SelectSeq(EntitySeq, LAMBDA e : w[e] # NoEntity)[i],
                    components |-> componentsOf(w, SelectSeq(EntitySeq, LAMBDA e : w[e] # NoEntity)[i])]]]

\* save(): the snapshot of the facade's world
save(w, ne) == serialize(w, ne)

\* the value the data tree gives component c of entity e, if any
savedValue(data, e, c) ==
  IF \E i \in DOMAIN data.entities :
       /\ data.entities[i].id = e
       /\ \E j \in DOMAIN data.entities[i].components : data.entities[i].components[j].type = c
  THEN Some(data.entities[CHOOSE i \in DOMAIN data.entities : data.entities[i].id = e]
              .components[CHOOSE j \in DOMAIN
                             data.entities[CHOOSE i \in DOMAIN data.entities : data.entities[i].id = e].components :
                            data.entities[CHOOSE i \in DOMAIN data.entities : data.entities[i].id = e]
                              .components[j].type = c].value)
  ELSE None

\* new World(savedData)
deserialize(data) == [e \in Entities |-> [c \in Components |-> savedValue(data, e, c)]]

\* the on_init hook of the new TaskManager, which has no handle: the remove
\* it buffers for every entity on which it runs
sanityCmds(w) ==
  forEach(query(w, {relation(Task, Thinking)}, {}),
          LAMBDA entity : << removeCmd(entity, relation(Task, Thinking)) >>)

\* the draws of the deterministic random functions
drawInt(o, min, max) == CHOOSE n \in randomInt(o, min, max) : TRUE
drawFrom(o, arr) == CHOOSE x \in randomSelect(o, arr) : TRUE

\* the commands one run of the pipeline buffers on the committed world w
pipelineCmds(m, o, w) ==
  PendingPassCmds(w)
  \o TimerPassCmds(w)
  \o MovementPassCmds(m, w)
  \o PathFindingPassCmds(m, w, DynamicColliderPassRun(m, w))
  \o PlanExecutionPassRun(m, w, DynamicColliderPassRun(m, w)).cmds
  \o StraightWalkPassRun(m, w, PlanExecutionPassRun(m, w, DynamicColliderPassRun(m, w)).colliders).cmds
  \o InitPlayerPassCmds(w, [e \in Entities |-> drawFrom(o, o.spawnPoints)],
                        [e \in Entities |-> drawFrom(o, <<Up, Down, Left, Right>>)])
  \o SimpleAIPassCmds(w, [e \in Entities |-> drawInt(o, o.minWaitTicks, o.maxWaitTicks)],
                      [e \in Entities |-> drawFrom(o, <<Up, Down, Left, Right>>)],
                      [e \in Entities |-> drawInt(o, o.minWalkDistance, o.maxWalkDistance)])

\* what the host observes of the next tick() of a script whose state is
\* st = [world, tasks, cmds, lastMove]: the views and the platform events
tickResult(m, o, st) ==
  [players |-> players(sync(st.world, startTasks(noActionQuery(st.world), st.tasks, {}, 1).tasks,
                            st.cmds \o pipelineCmds(m, o, st.world)).world,
                       st.lastMove),
   events |-> SimpleAIPassEvents(st.world)]

\* the host saves the script between two ticks and creates a script from
\* the snapshot; the run ends with the new script as create() returns it,
\* and tickResult tells what its first tick() gives.  Whether the ECS runs
\* on_init for the Task relations of the loaded world is left open.
Restore ==
  /\ pc = "PendingPass"
  /\ world # [e \in Entities |-> NoEntity]
  /\ pc' = "created"
  /\ world' = deserialize(save(world, nextEntity))
  /\ nextEntity' = save(world, nextEntity).entityManager
  /\ initial' = deserialize(save(world, nextEntity))
  /\ \E hooked \in BOOLEAN :
       cmds' = IF hooked THEN sanityCmds(deserialize(save(world, nextEntity))) ELSE <<>>
  /\ colliders' = {}
  /\ tasks' = [e \in Entities |-> None]
  /\ timers' = {}
  /\ lastMove' = [e \in Entities |-> None]
  /\ ret' = None
  /\ UNCHANGED <<heap, pushed, args, map, opts, nextGen, events, tick>>

NextRestore == NextApi \/ Restore

SpecRestore == InitApi /\ [][NextRestore]_vars

(***************************************************************************)
(* A MinHeap used on its own: any sequence of push, pop and                *)
(* decreasePriority with keys 0..MaxKey and priorities 0..MaxPriority.     *)
(***************************************************************************)
MaxKey == 2
MaxPriority == 1

InitHeap ==
  /\ map = MapS1
  /\ opts = NoAI
  /\ world = [e \in Entities |-> NoEntity]
  /\ initial = [e \in Entities |-> NoEntity]
  /\ cmds = <<>>
  /\ colliders = {}
  /\ tasks = [e \in Entities |-> None]
  /\ timers = {}
  /\ nextGen = 1
  /\ events = <<>>
  /\ pc = "heap"
  /\ tick = 0
  /\ args = None
  /\ ret = None
  /\ lastMove = [e \in Entities |-> None]
  /\ nextEntity = Len(EntitySeq) + 1
  /\ heap = EmptyHeap
  /\ pushed = <<>>

\* heap.push(key, priority)
pushCall(key, priority) ==
  /\ pc = "heap"
  /\ heap' = push(heap, key, priority)
  /\ pushed' = IF key \in SeqRange(pushed) THEN pushed ELSE Append(pushed, key)
  /\ ret' = None
  /\ UNCHANGED <<lastMove, nextEntity, initial, args, map, opts, world, cmds, colliders, tasks, timers,
                 nextGen, events, pc, tick>>

HeapPush == \E key \in 0..MaxKey, priority \in 0..MaxPriority : pushCall(key, priority)

\* heap.pop(); ret is the entry returned, if any
HeapPop ==
  /\ pc = "heap"
  /\ IF heapSize(heap) = 0
     THEN /\ ret' = None
          /\ UNCHANGED <<heap, pushed>>
     ELSE /\ ret' = Some(pop(heap).top)
          /\ heap' = pop(heap).h
          /\ pushed' = SelectSeq(pushed, LAMBDA k : k # pop(heap).top.key)
  /\ UNCHANGED <<lastMove, nextEntity, initial, args, map, opts, world, cmds, colliders, tasks, timers,
                 nextGen, events, pc, tick>>

\* heap.decreasePriority(key, newPriority)
decreasePriorityCall(key, newPriority) ==
  /\ pc = "heap"
  /\ heap' = decreasePriority(heap, key, newPriority)
  /\ pushed' = IF key \in SeqRange(pushed) THEN pushed ELSE Append(pushed, key)
  /\ ret' = None
  /\ UNCHANGED <<lastMove, nextEntity, initial, args, map, opts, world, cmds, colliders, tasks, timers,
                 nextGen, events, pc, tick>>

HeapDecreasePriority ==
  \E key \in 0..MaxKey, newPriority \in 0..MaxPriority : decreasePriorityCall(key, newPriority)

NextHeap == HeapPush \/ HeapPop \/ HeapDecreasePriority

SpecHeap == InitHeap /\ [][NextHeap]_vars

(***************************************************************************)
(* GridMap.generateMove called on its own, on 2x2 maps whose tile 1 may    *)
(* be the entry of none, one or two portals; a portal of these maps may    *)
(* lead outside the grid.  args is the call, ret what it returned.         *)
(***************************************************************************)
\* the portals entered at tile 1: their destinations and direction limits
EntryPortals ==
  {[from |-> 1, to |-> to, direction |-> d] :
     to \in {-1, 2, 4}, d \in {None, Some(Right), Some(Down)}}

\* none, one or two of them, in map order
EntryPortalLists ==
  {<<>>} \cup {<<p>> : p \in EntryPortals} \cup {<<p, q>> : p \in EntryPortals, q \in EntryPortals}

InitMove ==
  \E t1 \in {Obstacle, Normal, Fast}, t2 \in {Obstacle, Normal, Fast}, portals \in EntryPortalLists :
    /\ map = GridMap(Geometry(2, 2), <<Normal, t1, t2, Normal>>, portals)
    /\ opts = NoAI
    /\ world = [e \in Entities |-> NoEntity]
    /\ initial = [e \in Entities |-> NoEntity]
    /\ cmds = <<>>
    /\ colliders = {}
    /\ tasks = [e \in Entities |-> None]
    /\ timers = {}
    /\ nextGen = 1
    /\ events = <<>>
    /\ pc = "generateMove"
    /\ tick = 0
    /\ args = None
    /\ ret = None
    /\ lastMove = [e \in Entities |-> None]
    /\ nextEntity = Len(EntitySeq) + 1
    /\ heap = EmptyHeap
    /\ pushed = <<>>

\* map.generateMove(fromIdx, direction, idx => dyn.has(idx))
GenerateMove ==
  /\ pc = "generateMove"
  /\ \E fromIdx \in 0..(tileCount(map.geometry) - 1), direction \in Directions, dyn \in {{}, {1}, {0, 3}} :
       /\ args' = Some([fromIdx |-> fromIdx, direction |-> direction, dyn |-> dyn])
       /\ ret' = generateMove(map, fromIdx, direction, dyn)
  /\ pc' = "return"
  /\ UNCHANGED <<heap, pushed, lastMove, nextEntity, initial, map, opts, world, cmds, colliders, tasks,
                 timers, nextGen, events, tick>>

SpecMove == InitMove /\ [][GenerateMove]_vars

(***************************************************************************)
(* new GridMap(geometry, tiles, portals) called on its own.  args holds    *)
(* the arguments and ret what the constructor produced.  The inputs are    *)
(* small grids: every tiling without portals, every tiling of the 3x1 grid *)
(* with one or two portals whose ends may lie outside the grid, the 2x2    *)
(* grid with one portal limited to a direction, and the 4x1 grid with      *)
(* three portals.                                                          *)
(***************************************************************************)
Tilings(g) == [1..tileCount(g) -> {Obstacle, Normal, Fast}]

\* portals with both ends in ends and a direction limit in dirs
PortalsOver(ends, dirs) ==
  {[from |-> f, to |-> t, direction |-> d] : f \in ends, t \in ends, d \in dirs}

MapInput(g, tiles, portals) == [geometry |-> g, tiles |-> tiles, portals |-> portals]

ChainTilings ==
  {<<Normal, Normal, Normal, Normal>>, <<Normal, Fast, Normal, Normal>>,
   <<Normal, Obstacle, Normal, Normal>>, <<Fast, Normal, Obstacle, Normal>>}

\* the state before the constructor runs on input
newGridMap(input) ==
  /\ args = Some(input)
  /\ ret = None
  /\ pc = "new"
  /\ map = MapS1
  /\ opts = NoAI
  /\ world = [e \in Entities |-> NoEntity]
  /\ initial = [e \in Entities |-> NoEntity]
  /\ cmds = <<>>
  /\ colliders = {}
  /\ tasks = [e \in Entities |-> None]
  /\ timers = {}
  /\ nextGen = 1
  /\ events = <<>>
  /\ tick = 0
  /\ lastMove = [e \in Entities |-> None]
  /\ nextEntity = Len(EntitySeq) + 1
  /\ heap = EmptyHeap
  /\ pushed = <<>>

InitMap ==
  \/ \E g \in {Geometry(3, 1), Geometry(2, 2), Geometry(3, 2)} :
       \E tiles \in Tilings(g) : newGridMap(MapInput(g, tiles, <<>>))
  \/ \E tiles \in Tilings(Geometry(3, 1)), p \in PortalsOver(-1..3, {None}) :
       \/ newGridMap(MapInput(Geometry(3, 1), tiles, <<p>>))
       \/ \E q \in PortalsOver(-1..3, {None}) : newGridMap(MapInput(Geometry(3, 1), tiles, <<p, q>>))
  \/ \E tiles \in Tilings(Geometry(2, 2)), p \in PortalsOver(0..3, {None, Some(Right), Some(Down)}) :
       newGridMap(MapInput(Geometry(2, 2), tiles, <<p>>))
  \/ \E tiles \in ChainTilings :
       \E p \in PortalsOver(0..3, {None}), q \in PortalsOver(0..3, {None}), r \in PortalsOver(0..3, {None}) :
         newGridMap(MapInput(Geometry(4, 1), tiles, <<p, q, r>>))

\* the constructor has no failing branch: it always produces the object
Construct ==
  /\ pc = "new"
  /\ ret' = Some(GridMap(Val(args).geometry, Val(args).tiles, Val(args).portals))
  /\ pc' = "constructed"
  /\ UNCHANGED <<heap, pushed, lastMove, nextEntity, initial, args, map, opts, world, cmds, colliders,
                 tasks, timers, nextGen, events, tick>>

SpecMap == InitMap /\ [][Construct]_vars

(***************************************************************************)
(* The pipeline run for ever for one entity that pursues a goal and is the *)
(* only dynamic collider of the world: the host keeps calling tick().      *)
(***************************************************************************)
PursuitScenarios ==
  {Scenario(m, seeker(m, idx, target, r), NoEntity, NoAI) :
     m \in {MapS1, MapGap}, idx \in {0, 2}, target \in 0..2, r \in {0, 1}}
  \cup {Scenario(m, seeker(m, idx, target, 1), NoEntity, NoAI) :
          m \in {MapS3}, idx \in {0, 1, 3}, target \in {0, 2, 4}}
  \cup {Scenario(m, seeker(m, idx, target, 1), NoEntity, NoAI) :
          m \in {MapMix}, idx \in {0, 3}, target \in {0, 2, 5}}

InitPursuit ==
  \E sc \in PursuitScenarios :
    /\ map = sc.map
    /\ opts = sc.opts
    /\ world = sc.world
    /\ cmds = <<>>
    /\ colliders = {}
    /\ tasks = [e \in Entities |-> None]
    /\ timers = {}
    /\ nextGen = 1
    /\ events = <<>>
    /\ pc = "PendingPass"
    /\ tick = 0
    /\ initial = sc.world
    /\ args = None
    /\ ret = None
    /\ lastMove = [e \in Entities |-> None]
    /\ nextEntity = Len(EntitySeq) + 1
    /\ heap = EmptyHeap
    /\ pushed = <<>>

\* tick() runs its passes one after the other and none of them waits: the
\* position in the pipeline keeps advancing.  Every step of TickLive moves pc
\* and one of them is enabled in every state, so that this is weak fairness
\* of TickLive, stated on the program counter.
Advance == pc' \in SeqRange(Pipeline) \ {pc}

SpecPursuit == InitPursuit /\ [][TickLive]_vars /\ WF_pc(Advance)

(***************************************************************************)
(* map.ts: the areas of a GridMap.  An area is [name, cells], cells being   *)
(* the set of the entries of its array of tile indexes.  isInArea is called *)
(* once on a map of three tiles with up to MaxAreas areas.                  *)
(***************************************************************************)
MaxAreas == 2
AreaNames == {"home", "park"}
AreaCells == {0, 1, 3}

\* the loop of precomputeAreaIndex from area areaIdx on (areaIndex as a sequence)
RECURSIVE precomputeAreaIndexFrom(_, _, _)
precomputeAreaIndexFrom(areaIndex, areas, areaIdx) ==
  IF areaIdx >= Len(areas) THEN areaIndex
  ELSE precomputeAreaIndexFrom(
         [i \in 1..Len(areaIndex) |->
            IF (i - 1) \in areas[areaIdx + 1].cells THEN areaIdx ELSE areaIndex[i]],
         areas, areaIdx + 1)

\* precomputeAreaIndex(tilesLength, areas)
precomputeAreaIndex(tilesLength, areas) ==
  precomputeAreaIndexFrom([i \in 1..tilesLength |-> -1], areas, 0)

\* precomputeAreasByName(areas): the Map as a function from names to indexes
precomputeAreasByName(areas) ==
  [name \in {areas[i].name : i \in DOMAIN areas} |->
     CHOOSE idx \in 0..(Len(areas) - 1) :
       /\ areas[idx + 1].name = name
       /\ \A later \in (idx + 1)..(Len(areas) - 1) : areas[later + 1].name # name]

\* new GridMap(geometry, tiles, portals, areas): the area fields
GridMapAreas(m, areas) ==
  [areas |-> areas,
   tiles |-> m.tiles,
   areaIndex |-> precomputeAreaIndex(Len(m.tiles), areas),
   areasByName |-> precomputeAreasByName(areas)]

\* isInArea(index, areaName); an index outside the array reads undefined
isInArea(m, index, areaName) ==
  IF areaName \notin DOMAIN m.areasByName THEN FALSE
  ELSE IF index + 1 \notin DOMAIN m.areaIndex THEN FALSE
  ELSE m.areaIndex[index + 1] = m.areasByName[areaName]

AreaLists(n) == UNION {[1..k -> [name : AreaNames, cells : SUBSET AreaCells]] : k \in 0..n}

InitArea ==
  \E areas \in AreaLists(MaxAreas), index \in 0..3, areaName \in AreaNames \cup {"none"} :
    /\ map = MapS1
    /\ args = [areas |-> areas, index |-> index, areaName |-> areaName]
    /\ ret = None
    /\ pc = "call"
    /\ opts = NoAI
    /\ world = [e \in Entities |-> NoEntity]
    /\ initial = [e \in Entities |-> NoEntity]
    /\ cmds = <<>>
    /\ colliders = {}
    /\ tasks = [e \in Entities |-> None]
    /\ timers = {}
    /\ nextGen = 1
    /\ events = <<>>
    /\ tick = 0
    /\ lastMove = [e \in Entities |-> None]
    /\ nextEntity = Len(EntitySeq) + 1
    /\ heap = EmptyHeap
    /\ pushed = <<>>

\* ret holds what isInArea returned on the map constructed with args.areas
IsInArea ==
  /\ pc = "call"
  /\ ret' = Some(isInArea(GridMapAreas(map, args.areas), args.index, args.areaName))
  /\ pc' = "return"
  /\ UNCHANGED <<heap, pushed, lastMove, nextEntity, initial, args, map, opts, world, cmds, colliders, tasks, timers, nextGen,
                 events, tick>>

SpecArea == InitArea /\ [][IsInArea]_vars

(***************************************************************************)
(* Properties.  "After tick N" is the state between two runs of the        *)
(* pipeline in which tick = N.                                             *)
(***************************************************************************)
betweenTicks == pc = "PendingPass"

\* C1 as stated: in every reachable state no entity holds Move and
\* StraightWalk at the same time.
C1_NoMoveWithStraightWalk ==
  \A e \in Entities : ~(has(world, e, Move) /\ has(world, e, StraightWalk))

\* C1: an entity does hold Move and StraightWalk together while a step of its
\* walk is in flight (StraightWalkPass attaches the Move and keeps the
\* StraightWalk); what holds is that StraightWalkPass buffers no command
\* for an entity that holds a Move.
C1_StraightWalkPassSkipsMoving ==
  [][StraightWalkPassStep =>
       \A e \in Entities :
         has(world, e, Move) => \A i \in (Len(cmds) + 1)..Len(cmds') : cmds'[i].e # e]_vars

\* StraightWalkPass has just run over an entity holding both components
C1_Witness ==
  /\ pc = "InitPlayerPass"
  /\ \E e \in Entities : has(world, e, Move) /\ has(world, e, StraightWalk)

\* the effect of one tick on an entity holding a Move, with the move ending
\* in the tick that finds remainingTicks <= last
conserved(last) ==
  \A e \in Entities :
    has(world, e, Move) =>
      IF get(world, e, Move).remainingTicks > last
      THEN /\ has(world', e, Move)
           /\ get(world', e, Move).remainingTicks = get(world, e, Move).remainingTicks - 1
           /\ get(world', e, Move).targetIdx = get(world, e, Move).targetIdx
      ELSE /\ ~has(world', e, Move)
           /\ get(world', e, Position) = fromIndex(map.geometry, get(world, e, Move).targetIdx)

\* C2 as stated: a Move with remainingTicks = k after tick N is, after tick
\* N+1, a Move with k-1 and the same target when k > 1, and gone with
\* Position on the target when k = 1.
C2_EndsAtOne == [][SyncStep => conserved(1)]_vars

\* C2: a Move with remainingTicks = k after tick N is, after tick N+1, a Move
\* with k-1 and the same target when k > 2, and gone with Position on the
\* target when k <= 2 (the pass decrements first and ends the move at 1).
C2_EndsAtTwo == [][SyncStep => conserved(2)]_vars

\* MovementPass has buffered the end of a move that had two ticks remaining
C2_Witness ==
  /\ pc = "sync"
  /\ \E e \in Entities :
       /\ has(world, e, Move)
       /\ get(world, e, Move).remainingTicks = 2
       /\ removeCmd(e, Move) \in SeqRange(cmds)

\* scenario S1: the 3x1 map, one entity at (0,0) with StraightWalk {Right, 1}
S1 == map = MapS1 /\ initial = Scenario(MapS1, walker(MapS1, 0, Right, 1), NoEntity, NoAI).world

\* the ticks 1..9 of S1: a Move whose remainingTicks runs 10, 9, ..., 2
S1Moving ==
  tick \in 1..9 => /\ has(world, 1, Move)
                   /\ get(world, 1, Move).remainingTicks = 11 - tick
                   /\ get(world, 1, Position) = [x |-> 0, y |-> 0]

\* C3 as stated: in S1, after ticks 1..9 the Move has 10, 9, ..., 2 ticks
\* remaining, and after 10 ticks Position = (1,0) with neither StraightWalk
\* nor Move.
C3_DoneAfterTen ==
  S1 /\ betweenTicks =>
    /\ S1Moving
    /\ tick = 10 => /\ get(world, 1, Position) = [x |-> 1, y |-> 0]
                    /\ ~has(world, 1, StraightWalk)
                    /\ ~has(world, 1, Move)

\* C3: in S1, after ticks 1..9 the Move has 10, 9, ..., 2 ticks remaining;
\* after 10 ticks Position = (1,0) and the Move is gone, but StraightWalk
\* {Right, 0} is still attached (StraightWalkPass of tick 10 still sees the
\* Move); it is removed in tick 11.
C3_WalkEndsInEleven ==
  S1 /\ betweenTicks =>
    /\ S1Moving
    /\ tick = 10 => /\ get(world, 1, Position) = [x |-> 1, y |-> 0]
                    /\ ~has(world, 1, Move)
                    /\ world[1][StraightWalk] = Some([direction |-> Right, remainingDistance |-> 0])
    /\ tick = 11 => /\ get(world, 1, Position) = [x |-> 1, y |-> 0]
                    /\ ~has(world, 1, Move)
                    /\ ~has(world, 1, StraightWalk)

C3_Witness == S1 /\ betweenTicks /\ tick = 11 /\ ~has(world, 1, StraightWalk)

\* the first step of the walk an entity had before tick 1, still in flight
firstStep(w, e) ==
  /\ has(initial, e, StraightWalk) /\ has(initial, e, Position)
  /\ has(w, e, Move) /\ has(w, e, Position)
  /\ get(w, e, Position) = get(initial, e, Position)

C5_TimerExcludesTimeout ==
  \A e \in Entities : \A i \in DOMAIN TimerTargets :
    ~(has(world, e, relation(Timer, TimerTargets[i])) /\ has(world, e, relation(Timeout, TimerTargets[i])))

\* the timer SimpleAIPass gave a player has expired
C5_Witness ==
  \E e \in Entities :
    /\ has(world, e, PlayerId) /\ has(world, e, Thinking)
    /\ has(world, e, relation(Timeout, Thinking))

\* C6: a Timer->X attached with value v before tick 1 has value v - i after
\* tick i for i <= v; tick v + 1 removes it and sets Timeout->X, which stays
\* on every later tick; every Timer relation of an entity follows this
\* schedule on its own value.
C6_Countdown ==
  \A e \in Entities : \A i \in DOMAIN TimerTargets :
    betweenTicks /\ has(initial, e, relation(Timer, TimerTargets[i])) =>
      IF tick <= get(initial, e, relation(Timer, TimerTargets[i]))
      THEN /\ world[e][relation(Timer, TimerTargets[i])]
                = Some(get(initial, e, relation(Timer, TimerTargets[i])) - tick)
           /\ ~has(world, e, relation(Timeout, TimerTargets[i]))
      ELSE /\ ~has(world, e, relation(Timer, TimerTargets[i]))
           /\ has(world, e, relation(Timeout, TimerTargets[i]))

\* two ticks after Timeout->X was set it is still there, while the other
\* timer of the entity is still counting
C6_Witness ==
  \E e \in Entities :
    /\ betweenTicks
    /\ has(initial, e, relation(Timer, TagX))
    /\ tick > get(initial, e, relation(Timer, TagX)) + 1
    /\ has(world, e, relation(Timeout, TagX))
    /\ has(world, e, relation(Timer, Thinking))

\* scenario S4: the 3x3 map, A = entity 1 at (0,1) with the goal (2,1),
\* B = entity 2 at (2,1), both DynamicCollider
S4 ==
  /\ map = MapS4
  /\ initial[1] = seeker(MapS4, 3, 5, MaxRetries)
  /\ initial[2] = collider(with(NoEntity, Position, [x |-> 2, y |-> 1]))

\* C7 as stated: in S4 the PathFindingPass of the first tick produces no
\* PathPlan for A and leaves A with retryCount = 1.
C7_NoPlanOneRetry ==
  S4 /\ betweenTicks /\ tick = 1 =>
    /\ ~has(world, 1, PathPlan)
    /\ get(world, 1, GoalPathfinding).retryCount = 1

\* C7: in S4 the search of the first tick does treat the goal tile as
\* blocked, but it returns the path to the best tile it reached: A gets the
\* PathPlan [Right] to tile 4 (the tile before the goal) and keeps
\* retryCount = 0.
C7_PartialPlanNoRetry ==
  S4 /\ betweenTicks /\ tick = 1 =>
    /\ world[1][PathPlan] = Some([targetIndex |-> 4, path |-> <<Right>>, nextActionIndex |-> 0])
    /\ get(world, 1, GoalPathfinding).retryCount = 0

C7_Witness == S4 /\ betweenTicks /\ tick = 1 /\ has(world, 1, PathPlan)

\* scenario S3: the 5x1 map with the portal 2 -> 4 (Right), one entity at
\* (0,0) with GoalPathfinding {targetIndex 4, maxRetries 3}
S3 == map = MapS3 /\ initial = Scenario(MapS3, seeker(MapS3, 0, 4, 3), NoEntity, NoAI).world

\* C9: in S3 the first PathPlan (attached in tick 1) has Right as its first
\* action; the Move attached on tile 1 has targetIdx = 4 and totalTicks =
\* 10; the entity never has Position on tile 3 and stands on tile 4 after
\* tick 23.
C9_PortalStep ==
  S3 =>
    /\ betweenTicks /\ tick = 0 => ~has(world, 1, PathPlan)
    /\ betweenTicks /\ tick = 1 => has(world, 1, PathPlan) /\ get(world, 1, PathPlan).path[1] = Right
    /\ has(world, 1, Move) /\ get(world, 1, Position) = [x |-> 1, y |-> 0] =>
         get(world, 1, Move).targetIdx = 4 /\ get(world, 1, Move).totalTicks = 10
    /\ get(world, 1, Position) # [x |-> 3, y |-> 0]
    /\ betweenTicks /\ tick >= 23 => get(world, 1, Position) = [x |-> 4, y |-> 0]

C9_Witness == S3 /\ get(world, 1, Position) = [x |-> 4, y |-> 0] /\ ~has(world, 1, GoalPathfinding)

\* the tile a direction sequence ends on when run from `from` with generateMove
\* on a map without colliders, or -1 when a step of it cannot be made
RECURSIVE walkFrom(_, _, _)
walkFrom(m, from, path) ==
  IF path = <<>> THEN from
  ELSE IF generateMove(m, from, path[1], {}) = None THEN -1
  ELSE walkFrom(m, Val(generateMove(m, from, path[1], {})).targetIdx, Tail(path))

\* C8 as stated: on a map without portals and without dynamic colliders,
\* for two distinct tiles a and b of one island lowLevelPathfind(a, b)
\* returns a non-empty direction sequence that leads from a to b, tile 0
\* as start or on the route included.
C8_PathReachesGoal ==
  /\ pc = "return"
  /\ args.startIndex # args.goalIndex
  /\ map.islandIndex[args.startIndex + 1] >= 0
  /\ map.islandIndex[args.startIndex + 1] = map.islandIndex[args.goalIndex + 1]
  => /\ IsSome(ret)
     /\ Val(ret) # <<>>
     /\ walkFrom(map, args.startIndex, Val(ret)) = args.goalIndex

\* the tick of PathFindingPass for an entity it plans for: a plan resets
\* retryCount, a failure counts up to maxRetries and then removes the goal
retried ==
  \A e \in Entities :
    /\ has(world, e, GoalPathfinding) /\ has(world, e, Position) /\ ~has(world, e, PathPlan)
    /\ positionIndex(map, get(world, e, Position)) # get(world, e, GoalPathfinding).targetIndex
    => IF has(world', e, PathPlan)
       THEN world'[e][GoalPathfinding] = Some([get(world, e, GoalPathfinding) EXCEPT !.retryCount = 0])
       ELSE IF get(world, e, GoalPathfinding).retryCount < get(world, e, GoalPathfinding).maxRetries
       THEN world'[e][GoalPathfinding]
              = Some([get(world, e, GoalPathfinding) EXCEPT !.retryCount = @ + 1])
       ELSE ~has(world', e, GoalPathfinding)

\* an entity of the map with two islands whose goal is not on its island
stranded(e) ==
  /\ map = MapGap
  /\ has(initial, e, GoalPathfinding)
  /\ positionIndex(map, get(initial, e, Position)) # get(initial, e, GoalPathfinding).targetIndex

\* C10 as stated: every failing tick increments retryCount, and the goal is
\* removed in the tick in which retryCount reaches maxRetries: a goal that
\* cannot be planned is gone after maxRetries ticks.
C10_GoneAfterMaxRetries ==
  \A e \in Entities :
    /\ stranded(e) /\ betweenTicks
    /\ get(initial, e, GoalPathfinding).maxRetries >= 1
    /\ tick = get(initial, e, GoalPathfinding).maxRetries
    => ~has(world, e, GoalPathfinding)

\* C10: a failing tick increments retryCount while retryCount < maxRetries
\* and removes GoalPathfinding when retryCount = maxRetries already, so a
\* goal that cannot be planned has retryCount = N after tick N <= maxRetries
\* and is gone after maxRetries + 1 ticks; a successful attempt attaches
\* PathPlan and resets retryCount to 0.
C10_GoneAfterMaxRetriesPlusOne ==
  /\ [][SyncStep => retried]_vars
  /\ [](\A e \in Entities :
          stranded(e) /\ betweenTicks =>
            IF tick <= get(initial, e, GoalPathfinding).maxRetries
            THEN /\ has(world, e, GoalPathfinding)
                 /\ get(world, e, GoalPathfinding).retryCount = tick
            ELSE ~has(world, e, GoalPathfinding))

\* the goal on the other island is given up after maxRetries + 1 ticks
C10_Witness ==
  /\ stranded(1) /\ betweenTicks
  /\ get(initial, 1, GoalPathfinding).maxRetries = MaxRetries
  /\ tick = MaxRetries + 1
  /\ ~has(world, 1, GoalPathfinding)

\* direction d is a step from tile a that brings the goal b closer, along
\* the row or along the column
closer(m, a, b, d) ==
  \/ d = Right /\ fromIndex(m.geometry, b).x > fromIndex(m.geometry, a).x
  \/ d = Left /\ fromIndex(m.geometry, b).x < fromIndex(m.geometry, a).x
  \/ d = Down /\ fromIndex(m.geometry, b).y > fromIndex(m.geometry, a).y
  \/ d = Up /\ fromIndex(m.geometry, b).y < fromIndex(m.geometry, a).y

\* lowLevelPathfind gives nothing to walk: no path, or the empty one
noUsablePath(p) == p = None \/ Val(p) = <<>>

\* C11 as stated: when the low-level search yields no usable path for a goal
\* on the same island and some cardinal step that brings the goal closer is
\* a valid move under generateMove with the current colliders,
\* PathFindingPass attaches a single-step PathPlan in such a direction.
C11_FallbackStep ==
  /\ pc = "ran"
  /\ args.startIndex # args.goalIndex
  /\ noUsablePath(lowLevelPathfind(map, args.startIndex, args.goalIndex, colliders))
  /\ \E d \in Directions :
       /\ closer(map, args.startIndex, args.goalIndex, d)
       /\ IsSome(generateMove(map, args.startIndex, d, colliders))
  => \E i \in DOMAIN cmds :
       /\ cmds[i].op = "set" /\ cmds[i].e = 1 /\ cmds[i].c = PathPlan
       /\ Len(Val(cmds[i].v).path) = 1
       /\ closer(map, args.startIndex, args.goalIndex, Val(cmds[i].v).path[1])

\* the handle of host timer t is outstanding but no longer the registered
\* one of its entity: its Task relation has been removed since start()
cancelled(t) == tasks[t.e] # Some(t.gen)

\* C12 as stated: once the Task relation of an entity has been removed,
\* every later complete() of a handle started before the removal is a
\* no-op: it attaches no TaskCompleted, removes nothing and leaves a task
\* started afterwards for the same entity alone.
C12_StaleCompleteIsNoOp ==
  [][\A t \in timers :
       cancelled(t) /\ timers' = timers \ {t} => UNCHANGED <<world, tasks, cmds>>]_vars

\* start(entity) was called in the tick that is about to end
startedThisTick(e) == \E t \in timers : t.e = e /\ t.age = 0

\* C13: TaskCompleted->Thinking is absent at the end of the tick in which
\* start(entity) was called; it appears only in a step in which a host timer
\* of the entity calls complete(), which removes Task->Thinking in the same
\* step; and the tick that follows the callback is the first whose passes
\* see it: its SimpleAIPass finds the entity in startThinkingQuery and sets
\* Timer->Thinking.
C13_CompletedAfterCallback ==
  /\ [][SyncStep =>
          \A e \in Entities :
            /\ startedThisTick(e) => ~has(world', e, relation(TaskCompleted, Thinking))
            /\ e \in SeqRange(startThinkingQuery(world)) => has(world', e, relation(Timer, Thinking))]_vars
  /\ [][\A e \in Entities :
          ~has(world, e, relation(TaskCompleted, Thinking))
          /\ has(world', e, relation(TaskCompleted, Thinking))
          => /\ betweenTicks /\ pc' = pc /\ tick' = tick
             /\ \E t \in timers : t.e = e /\ timers' = timers \ {t}
             /\ has(world, e, relation(Task, Thinking))
             /\ ~has(world', e, relation(Task, Thinking))]_vars

\* the tick after the callback has run: the completion has been seen
C13_Witness ==
  \E e \in Entities :
    /\ betweenTicks /\ timers = {}
    /\ has(world, e, relation(TaskCompleted, Thinking))
    /\ ~has(world, e, relation(Task, Thinking))
    /\ has(world, e, relation(Timer, Thinking))

\* the events emitted for one player, in order
eventsOf(id) == SelectSeq(events, LAMBDA ev : ev.playerId = id)

\* the events a step adds for the player of entity e
added(e, type) ==
  \E i \in (Len(events) + 1)..Len(events') :
    events'[i] = [type |-> type, playerId |-> get(world, e, PlayerId)]

\* the commands a step buffers contain a set of component c for entity e
sets(e, c) ==
  \E i \in (Len(cmds) + 1)..Len(cmds') : cmds'[i].op = "set" /\ cmds'[i].e = e /\ cmds'[i].c = c

\* C14: the events of every player alternate thinking:start, thinking:end,
\* thinking:start, ... beginning with thinking:start; a run of SimpleAIPass
\* emits thinking:start for a player exactly when it sets its
\* Timer->Thinking and thinking:end exactly when it attaches its
\* StraightWalk, so each loop has one of each.
C14_EventsAlternate ==
  /\ [](\A id \in {"p1", "p2"} : \A i \in DOMAIN eventsOf(id) :
          eventsOf(id)[i].type = IF i % 2 = 1 THEN "thinking:start" ELSE "thinking:end")
  /\ [][SimpleAIPassStep =>
          \A e \in Entities :
            has(world, e, PlayerId) =>
              /\ added(e, "thinking:start") <=> sets(e, relation(Timer, Thinking))
              /\ added(e, "thinking:end") <=> sets(e, StraightWalk)]_vars

\* a player is in its second loop
C14_Witness ==
  /\ Len(eventsOf("p1")) = 3
  /\ eventsOf("p1")[3].type = "thinking:start"

\* the run of the AI loop tests: one player, the deterministic random
\* functions, wait range [3,5] and walk range [2,3]
S5 == opts = TestOptions(<< [x |-> 1, y |-> 1] >>)

\* the last event emitted is of the given type
lastEvent(type) == events # <<>> /\ events[Len(events)].type = type

\* C15: in S5 the first tick after the host timer has fired sets
\* Timer->Thinking = 3 and PlayerStatus = tip and emits thinking:start; the
\* four ticks after it take the Timer to 2, 1, 0 and then replace it by
\* Timeout->Thinking, which is absent before; the tick after that removes
\* Thinking and Timeout->Thinking, emits thinking:end and attaches
\* StraightWalk {direction: Up, remainingDistance: 2}.
C15_LoopTiming ==
  [][S5 /\ SyncStep =>
       /\ 1 \in SeqRange(startThinkingQuery(world)) =>
            /\ world'[1][relation(Timer, Thinking)] = Some(3)
            /\ world'[1][PlayerStatus] = Some("tip")
            /\ lastEvent("thinking:start")
       /\ \A v \in 1..3 :
            world[1][relation(Timer, Thinking)] = Some(v) =>
              /\ world'[1][relation(Timer, Thinking)] = Some(v - 1)
              /\ ~has(world', 1, relation(Timeout, Thinking))
       /\ world[1][relation(Timer, Thinking)] = Some(0) =>
            /\ ~has(world', 1, relation(Timer, Thinking))
            /\ has(world', 1, relation(Timeout, Thinking))
            /\ has(world', 1, Thinking)
       /\ has(world, 1, relation(Timeout, Thinking)) =>
            /\ ~has(world', 1, Thinking)
            /\ ~has(world', 1, relation(Timeout, Thinking))
            /\ world'[1][StraightWalk] = Some([direction |-> Up, remainingDistance |-> 2])
            /\ lastEvent("thinking:end")]_vars

\* the walk of the first loop has just been attached
C15_Witness ==
  /\ S5 /\ betweenTicks /\ Len(events) = 2 /\ lastEvent("thinking:end")
  /\ world[1][StraightWalk] = Some([direction |-> Up, remainingDistance |-> 2])

\* C16: with ticks issued for ever and every host timer fired, every
\* initialised idle player enters Thinking with a Task->Thinking, every
\* thinking player receives a StraightWalk, every walking player has
\* neither StraightWalk nor Move again, and every player starts a new
\* task again and again.
C16_LoopLiveness ==
  \A e \in Entities :
    /\ e \in SeqRange(noActionQuery(world))
         ~> has(world, e, Thinking) /\ has(world, e, relation(Task, Thinking))
    /\ has(world, e, PlayerId) /\ has(world, e, Thinking) ~> has(world, e, StraightWalk)
    /\ has(world, e, PlayerId) /\ has(world, e, StraightWalk)
         ~> ~has(world, e, StraightWalk) /\ ~has(world, e, Move)
    /\ has(initial, e, PlayerId) => []<><<tasks[e] = None /\ tasks'[e] # None>>_vars

\* a player that has walked away from the spawn points thinks again
C16_Witness ==
  /\ has(world, 1, Thinking) /\ has(world, 1, relation(Task, Thinking))
  /\ has(world, 1, Position)
  /\ get(world, 1, Position) \notin SeqRange(opts.spawnPoints)

\* the run of SimpleAIPass starts a thinking task for entity e
startsThinking(e) ==
  \/ sets(e, Thinking)
  \/ \E i \in (Len(cmds) + 1)..Len(cmds') :
       cmds'[i].e = e /\ cmds'[i].c = PlayerStatus /\ cmds'[i].v = Some("thinking")
  \/ sets(e, relation(Task, Thinking))
  \/ tasks'[e] # tasks[e]
  \/ \E t \in timers' \ timers : t.e = e

\* C17: SimpleAIPass starts a thinking task only for entities that have
\* PlayerInited and PlayerId and none of Move, StraightWalk, PathPlan,
\* GoalPathfinding, Thinking; no entity ever has more than one outstanding
\* thinking task.
C17_StartsOnlyWhenIdle ==
  /\ [][SimpleAIPassStep =>
          \A e \in Entities :
            startsThinking(e) =>
              /\ has(world, e, PlayerInited) /\ has(world, e, PlayerId)
              /\ \A c \in {Move, StraightWalk, PathPlan, GoalPathfinding, Thinking} : ~has(world, e, c)]_vars
  /\ [](\A e \in Entities : Cardinality({t \in timers : t.e = e}) <= 1)

\* SimpleAIPass has run over a walking player and over one it started a task for
C17_Witness ==
  /\ pc = "sync"
  /\ \E e \in Entities :
       /\ has(world, e, PlayerInited) /\ has(world, e, Move) /\ has(world, e, StraightWalk)
       /\ tasks[e] = None
  /\ \E e \in Entities : \E t \in timers : t.e = e /\ t.age = 0

\* the view of entity e in the result of the last tick()
viewOf(result, w, e) == Val(result)[get(w, e, PlayerId)]

sentinel(result, id) ==
  /\ result # None
  /\ id \in DOMAIN Val(result)
  /\ Val(result)[id].move # None
  /\ Val(result)[id].move[1].current = -1

\* C19: the view tick t returns for an exported player reports the progress
\* of the Move the entity holds after tick t; it reports {current: -1, total:
\* lastTotal} exactly when the entity held a Move after tick t-1 and holds
\* none after tick t; it reports no move otherwise; and a sentinel is never
\* reported in two successive ticks.
C19_JustFinishedSentinel ==
  [][TickExport =>
       \A e \in SeqRange(exportsQuery(world')) :
         /\ has(world', e, Move) =>
              viewOf(ret', world', e).move =
                Some([current |-> get(world', e, Move).totalTicks - get(world', e, Move).remainingTicks,
                      total |-> get(world', e, Move).totalTicks])
         /\ ~has(world', e, Move) /\ has(world, e, Move) =>
              viewOf(ret', world', e).move =
                Some([current |-> -1, total |-> get(world, e, Move).totalTicks])
         /\ ~has(world', e, Move) /\ ~has(world, e, Move) => viewOf(ret', world', e).move = None
         /\ sentinel(ret, get(world', e, PlayerId)) => ~sentinel(ret', get(world', e, PlayerId))]_vars

\* both players are exported; one is reported as having just finished a step
\* and the other, which has moved off the spawn point before, reports no move
C19_Witness ==
  /\ pc = "PendingPass"
  /\ ret # None
  /\ DOMAIN Val(ret) = {"p1", "p2"}
  /\ \E id, other \in {"p1", "p2"} :
       /\ sentinel(ret, id)
       /\ Val(ret)[other].move = None
       /\ Val(ret)[other].y < ApiOptions.spawnPoints[1].y

\* the entities that carry PlayerId id in world w
carriers(w, id) == {e \in Entities : has(w, e, PlayerId) /\ get(w, e, PlayerId) = id}

\* C20: when setupPlayers(M) returns, every id of M is carried by exactly one
\* entity, no entity carries an id outside M, and an entity whose id was
\* present before and is in M is the same entity with the same components;
\* the calls are interleaved with ticks and timer callbacks.
C20_RosterDiff ==
  [][SetupPlayers =>
       /\ \A id \in SeqRange(Val(args')) : Cardinality(carriers(world', id)) = 1
       /\ \A e \in Entities : has(world', e, PlayerId) => get(world', e, PlayerId) \in SeqRange(Val(args'))
       /\ \A e \in Entities :
            has(world, e, PlayerId) /\ get(world, e, PlayerId) \in SeqRange(Val(args')) =>
              world'[e] = world[e]]_vars

\* the last call has kept one player, who is thinking with a task
\* outstanding, and has deleted the other in the middle of a step
C20_Witness ==
  /\ pc = "PendingPass"
  /\ args # None
  /\ Len(Val(args)) = 1
  /\ \E e, f \in Entities :
       /\ world[e] = NoEntity
       /\ lastMove[e] # None
       /\ carriers(world, Val(args)[1]) = {f}
       /\ has(world, f, Thinking)
       /\ tasks[f] # None

\* the state of a script as tick() reads it
script(w, tk, cs, lm) == [world |-> w, tasks |-> tk, cmds |-> cs, lastMove |-> lm]

\* the script after the host timer t has run the complete() of its task
fired(t) ==
  script(complete(world, tasks, cmds, t.e).world, complete(world, tasks, cmds, t.e).tasks,
         complete(world, tasks, cmds, t.e).cmds, lastMove)

\* C18 as stated: the script created from a snapshot returns the views and
\* emits the platform events that the saved script returns and emits under
\* the same inputs; here for the first tick() after the snapshot, issued at
\* once or after a timer that was outstanding at the snapshot has fired.
C18_SnapshotRoundTrip ==
  [][Restore =>
       /\ tickResult(map, opts, script(world', tasks', cmds', lastMove'))
            = tickResult(map, opts, script(world, tasks, cmds, lastMove))
       /\ \A t \in timers :
            t.age >= 1 =>
              tickResult(map, opts, script(world', tasks', cmds', lastMove'))
                = tickResult(map, opts, fired(t))]_vars

\* the place of key in the order of insertion
insertedAt(key) == CHOOSE i \in DOMAIN pushed : pushed[i] = key

\* C21 as stated: pop returns an entry of minimal priority, and among the
\* entries of that priority the one whose key was inserted first.
C21_PopIsStable ==
  [][HeapPop /\ heapSize(heap) > 0 =>
       \A i \in DOMAIN heap.heap :
         /\ Val(ret').priority <= heap.heap[i].priority
         /\ heap.heap[i].priority = Val(ret').priority =>
              insertedAt(Val(ret').key) <= insertedAt(heap.heap[i].key)]_vars

\* the entries of a heap, and the priority it holds for a key that is present
entries(h) == {h.heap[i] : i \in DOMAIN h.heap}
priorityOf(h, key) == h.heap[h.keyToIndex[key] + 1].priority

\* C22: push of a key that is present changes nothing; decreasePriority of
\* an absent key adds it with the given priority, of a present key with a
\* smaller priority lowers that key's priority and keeps the other entries,
\* and changes nothing otherwise; every key occurs at most once, contains is
\* true exactly for the keys pushed and not yet popped, and size counts them.
C22_KeyOperations ==
  /\ [][\A key \in 0..MaxKey, priority \in 0..MaxPriority :
          /\ pushCall(key, priority) =>
               IF contains(heap, key)
               THEN heap' = heap
               ELSE entries(heap') = entries(heap) \cup {[key |-> key, priority |-> priority]}
          /\ decreasePriorityCall(key, priority) =>
               IF ~contains(heap, key)
               THEN entries(heap') = entries(heap) \cup {[key |-> key, priority |-> priority]}
               ELSE IF priority < priorityOf(heap, key)
                    THEN entries(heap') =
                           {e \in entries(heap) : e.key # key} \cup {[key |-> key, priority |-> priority]}
                    ELSE heap' = heap]_vars
  /\ [](/\ \A i, j \in DOMAIN heap.heap : heap.heap[i].key = heap.heap[j].key => i = j
        /\ \A key \in 0..MaxKey : contains(heap, key) <=> key \in SeqRange(pushed)
        /\ heapSize(heap) = Len(pushed)
        /\ \A key \in DOMAIN heap.keyToIndex : heap.heap[heap.keyToIndex[key] + 1].key = key)

\* every key is in the heap, the key inserted first has been popped and
\* pushed again, and the key inserted last has had its priority lowered
\* and has come to the top
C22_Witness ==
  /\ heapSize(heap) = MaxKey + 1
  /\ pushed[Len(pushed)] = 0
  /\ heap.heap[1].key = pushed[2]
  /\ \A i \in 2..Len(heap.heap) : heap.heap[i].priority > heap.heap[1].priority
  /\ heap.heap[2].key = pushed[1]

\* the coordinates one step from tile fromIdx in direction d
stepX(g, fromIdx, d) == (fromIdx % g.width) + (IF d = Right THEN 1 ELSE IF d = Left THEN -1 ELSE 0)
stepY(g, fromIdx, d) == (fromIdx \div g.width) + (IF d = Down THEN 1 ELSE IF d = Up THEN -1 ELSE 0)
inGrid(g, x, y) == x \in 0..(g.width - 1) /\ y \in 0..(g.height - 1)

\* the portals of the map entered at tile idx in direction d, in map order
entered(m, idx, d) ==
  SelectSeq(m.portals, LAMBDA p : p.from = idx /\ (p.direction = None \/ p.direction = Some(d)))

\* what the claim expects of generateMove(fromIdx, d, dyn) with adjacent tile adj
expectedNone(m, adj, d, dyn) ==
  \/ m.tiles[adj + 1] = Obstacle
  \/ adj \in dyn
  \/ /\ entered(m, adj, d) # <<>>
     /\ entered(m, adj, d)[1].to \notin 0..(tileCount(m.geometry) - 1)

expectedTarget(m, adj, d) == IF entered(m, adj, d) # <<>> THEN entered(m, adj, d)[1].to ELSE adj

expectedMove(m, adj, d) ==
  [totalTicks |-> IF m.tiles[adj + 1] = Fast THEN 7 ELSE 10,
   remainingTicks |-> IF m.tiles[adj + 1] = Fast THEN 7 ELSE 10,
   targetIdx |-> expectedTarget(m, adj, d),
   targetPosition |-> [x |-> expectedTarget(m, adj, d) % m.geometry.width,
                       y |-> expectedTarget(m, adj, d) \div m.geometry.width]]

expectedResult(m, fromIdx, d, dyn) ==
  IF ~inGrid(m.geometry, stepX(m.geometry, fromIdx, d), stepY(m.geometry, fromIdx, d))
  THEN None
  ELSE IF expectedNone(m, stepY(m.geometry, fromIdx, d) * m.geometry.width + stepX(m.geometry, fromIdx, d), d, dyn)
       THEN None
       ELSE Some(expectedMove(m, stepY(m.geometry, fromIdx, d) * m.geometry.width
                                   + stepX(m.geometry, fromIdx, d), d))

outside(g, index) == index < 0 \/ index >= g.width * g.height

looseEnd(input) ==
  \E i \in DOMAIN input.portals :
    outside(input.geometry, input.portals[i].from) \/ outside(input.geometry, input.portals[i].to)

\* C24: constructing a GridMap with a portal whose from or to index lies
\* outside [0, width * height) fails with InvalidMap and yields no map
\* object.
C24_InvalidMap ==
  (pc = "constructed" /\ looseEnd(Val(args))) => ret = None

\* the tiles next to tile a (4-way) on grid g
adjacent(g, a) ==
  {b \in 0..(g.width * g.height - 1) :
     \/ /\ a \div g.width = b \div g.width
        /\ (a % g.width) - (b % g.width) \in {-1, 1}
     \/ /\ a % g.width = b % g.width
        /\ (a \div g.width) - (b \div g.width) \in {-1, 1}}

walkTiles(m) == {a \in 0..(Len(m.tiles) - 1) : m.tiles[a + 1] # Obstacle}

entryCost(m, b) == IF m.tiles[b + 1] = Fast THEN 7 ELSE 10

\* the cost of reaching tile b by one more step, given the costs d of
\* reaching every tile (d[c + 1] for tile c), or d's own if that is cheaper
stepCost(m, d, b) ==
  IF m.tiles[b + 1] = Obstacle THEN Infinity
  ELSE IF \E c \in adjacent(m.geometry, b) : d[c + 1] + entryCost(m, b) < d[b + 1]
       THEN CHOOSE v \in {d[c + 1] + entryCost(m, b) : c \in adjacent(m.geometry, b)} :
              \A c \in adjacent(m.geometry, b) : v <= d[c + 1] + entryCost(m, b)
       ELSE d[b + 1]

\* one round of relaxation, for the tiles from b on
RECURSIVE relaxFrom(_, _, _)
relaxFrom(m, d, b) ==
  IF b >= Len(m.tiles) THEN <<>> ELSE <<stepCost(m, d, b)>> \o relaxFrom(m, d, b + 1)

RECURSIVE relaxRounds(_, _, _)
relaxRounds(m, d, n) == IF n = 0 THEN d ELSE relaxRounds(m, relaxFrom(m, d, 0), n - 1)

\* the start costs: 0 at tile a, Infinity elsewhere
RECURSIVE startCosts(_, _, _)
startCosts(m, a, b) ==
  IF b >= Len(m.tiles) THEN <<>>
  ELSE <<IF b = a /\ m.tiles[b + 1] # Obstacle THEN 0 ELSE Infinity>> \o startCosts(m, a, b + 1)

\* the cheapest walk from a to b over walkable tiles, paying for every tile
\* entered; Infinity if there is none
walkingCost(m, a, b) == relaxRounds(m, startCosts(m, a, 0), Len(m.tiles))[b + 1]

\* the edge i -> j of the portal graph (portal numbers from 1)
hasEdge(m, i, j) ==
  /\ m.portals[i].to \in DOMAIN m.portalDistances
  /\ m.portals[j].from \in DOMAIN m.portalDistances[m.portals[i].to]

edgeWeight(m, i, j) == m.portalDistances[m.portals[i].to][m.portals[j].from]

sameIsland(m, a, b) ==
  /\ a \in walkTiles(m)
  /\ b \in walkTiles(m)
  /\ m.islandIndex[a + 1] = m.islandIndex[b + 1]

portalEdges(m) ==
  \A i \in DOMAIN m.portals, j \in DOMAIN m.portals :
    (i # j /\ sameIsland(m, m.portals[i].to, m.portals[j].from))
      => /\ hasEdge(m, i, j)
         /\ edgeWeight(m, i, j) = walkingCost(m, m.portals[i].to, m.portals[j].from)

\* C25: for every ordered pair of distinct portals i, j with portals[i].to
\* and portals[j].from on the same island, the portal graph of a
\* constructed map has the edge i -> j, weighted with the walking cost from
\* portals[i].to to portals[j].from inside the island (0 when the two tiles
\* are the same).
C25_PortalEdges ==
  pc = "constructed" => portalEdges(Val(ret))

\* the stored cost from portal i to portal j (portal numbers from 0), an
\* absent entry counting as infinite
storedCost(m, i, j) == IF j \in DOMAIN m.portalPaths[i] THEN m.portalPaths[i][j].cost ELSE Infinity

plus(a, b) == IF a >= Infinity \/ b >= Infinity THEN Infinity ELSE a + b

\* the sum of the one-hop costs along the portal sequence path
RECURSIVE hopSum(_, _)
hopSum(m, path) ==
  IF Len(path) < 2 THEN 0
  ELSE IF ~hasEdge(m, path[1] + 1, path[2] + 1) \/ path[1] = path[2] THEN Infinity
  ELSE plus(edgeWeight(m, path[1] + 1, path[2] + 1), hopSum(m, Tail(path)))

portalTable(m) ==
  LET ids == 0..(Len(m.portals) - 1)
  IN /\ DOMAIN m.portalPaths = ids
     /\ \A i \in ids, k \in ids, j \in ids :
          storedCost(m, i, j) <= plus(storedCost(m, i, k), storedCost(m, k, j))
     /\ \A i \in ids :
          /\ i \in DOMAIN m.portalPaths[i]
          /\ m.portalPaths[i][i] = [cost |-> 0, path |-> <<i>>]
     /\ \A i \in ids :
          \A j \in DOMAIN m.portalPaths[i] :
            /\ j \in ids
            /\ m.portalPaths[i][j].cost < Infinity
            /\ m.portalPaths[i][j].path # <<>>
            /\ m.portalPaths[i][j].path[1] = i
            /\ m.portalPaths[i][j].path[Len(m.portalPaths[i][j].path)] = j
            /\ hopSum(m, m.portalPaths[i][j].path) = m.portalPaths[i][j].cost

\* C26: in the portal table of a constructed map, for all portals i, k, j
\* the stored costs satisfy dist[i][j] <= dist[i][k] + dist[k][j] (an
\* absent entry counting as infinite), dist[i][i] is 0 with path [i], and
\* every stored path starts with i, ends with j, and the one-hop costs of
\* its consecutive portal pairs sum to the stored cost.
C26_PortalTable ==
  pc = "constructed" => portalTable(Val(ret))

\* three portals where 0 reaches 2 only through portal 1
C26_Witness ==
  /\ pc = "constructed"
  /\ Len(Val(ret).portals) = 3
  /\ 2 \in DOMAIN Val(ret).portalPaths[0]
  /\ Val(ret).portalPaths[0][2].path = <<0, 1, 2>>
  /\ ~hasEdge(Val(ret), 1, 3)
  /\ Val(ret).portalPaths[0][2].cost = 17

\* the tiles on the island of a are those that a 4-way path of
\* non-obstacle tiles joins to a: those with a finite walking cost d
islandOf(m, a, d) ==
  \A b \in walkTiles(m) : (m.islandIndex[a + 1] = m.islandIndex[b + 1]) <=> (d[b + 1] < Infinity)

islandsOf(m) ==
  /\ Len(m.islandIndex) = Len(m.tiles)
  /\ \A i \in 0..(Len(m.tiles) - 1) : (m.islandIndex[i + 1] = -1) <=> (m.tiles[i + 1] = Obstacle)
  /\ \A a \in walkTiles(m) : islandOf(m, a, relaxRounds(m, startCosts(m, a, 0), Len(m.tiles)))

\* C27: for every tile i of a constructed GridMap, islandIndex[i] is -1
\* exactly when tiles[i] is Obstacle, and two non-obstacle tiles have the
\* same islandIndex exactly when a 4-way path of non-obstacle tiles joins
\* them without a portal.
C27_Islands ==
  pc = "constructed" => islandsOf(Val(ret))

\* two walkable tiles that touch only diagonally, joined by a portal, lie
\* on different islands
C27_Witness ==
  /\ pc = "constructed"
  /\ Val(ret).geometry = Geometry(2, 2)
  /\ Val(ret).tiles = <<Normal, Obstacle, Obstacle, Fast>>
  /\ Val(ret).portals = <<[from |-> 0, to |-> 3, direction |-> None]>>
  /\ Val(ret).islandIndex = <<0, -1, -1, 1>>

\* C28: an entity holds Task->Thinking only while the TaskManager has a
\* handle registered for it; a Task relation that appears without one (as
\* in a world created from a snapshot) is removed by the manager.
C28_TaskNeedsHandle ==
  \A e \in Entities : has(world, e, relation(Task, Thinking)) => tasks[e] # None

\* the commands the claim expects of PendingPass for the entities es
RECURSIVE reorient(_, _)
reorient(w, es) ==
  IF es = <<>> THEN <<>>
  ELSE (IF w[es[1]][<<"Pending", "FaceDirection">>] # None /\ w[es[1]][<<"Move">>] = None
        THEN << [op |-> "set", e |-> es[1], c |-> <<"FaceDirection">>,
                 v |-> w[es[1]][<<"Pending", "FaceDirection">>]],
                [op |-> "remove", e |-> es[1], c |-> <<"Pending", "FaceDirection">>, v |-> None] >>
        ELSE <<>>)
       \o reorient(w, Tail(es))

\* what a tick that started in world w and ends in world v did to entity e
reoriented(w, v, e) ==
  IF w[e][<<"Move">>] # None
  THEN /\ v[e][<<"Pending", "FaceDirection">>] = w[e][<<"Pending", "FaceDirection">>]
       /\ v[e][<<"FaceDirection">>] = w[e][<<"FaceDirection">>]
  ELSE /\ v[e][<<"Pending", "FaceDirection">>] = None
       /\ (v[e][<<"Move">>] = None => v[e][<<"FaceDirection">>] = w[e][<<"Pending", "FaceDirection">>])

\* C29: PendingPass sets FaceDirection to d and removes the relation for
\* every entity that holds Pending->FaceDirection with value d and no Move,
\* and does nothing for the other entities; so at the end of the tick an
\* entity that was moving at its start keeps both its Pending relation and
\* its FaceDirection, and one that was not has lost the relation and faces
\* d (unless a walking pass started a step in that tick and turned it).
C29_PendingPass ==
  [][/\ (pc = "PendingPass" /\ pc' # pc) => cmds' = cmds \o reorient(world, <<1, 2>>)
     /\ (pc = "sync" /\ pc' # pc) =>
          \A e \in Entities :
            world[e][<<"Pending", "FaceDirection">>] # None => reoriented(world, world', e)]_vars

\* entity 1 was told to turn in the middle of a step: it kept facing as
\* before while moving, and has turned in the tick after the step ended
C29_Witness ==
  /\ pc = "PendingPass"
  /\ tick = 3
  /\ initial[1][Move] # None
  /\ initial[1][relation(Pending, FaceDirection)] = Some(Down)
  /\ initial[1][FaceDirection] = Some(Left)
  /\ world[1][Move] = None
  /\ world[1][relation(Pending, FaceDirection)] = None
  /\ world[1][FaceDirection] = Some(Down)
  /\ world[2][FaceDirection] = Some(Up)

\* entity e of world w occupies tile k: it is a DynamicCollider standing on
\* k or moving to k
occupies(m, w, e, k) ==
  /\ w[e][<<"DynamicCollider">>] # None
  /\ \/ /\ w[e][<<"Position">>] # None
        /\ w[e][<<"Position">>][1].x \in 0..(m.geometry.width - 1)
        /\ w[e][<<"Position">>][1].y \in 0..(m.geometry.height - 1)
        /\ k = w[e][<<"Position">>][1].y * m.geometry.width + w[e][<<"Position">>][1].x
     \/ /\ w[e][<<"Move">>] # None
        /\ k = w[e][<<"Move">>][1].targetIdx

occupied(m, w) == {k \in 0..(m.geometry.width * m.geometry.height - 1) : \E e \in Entities : occupies(m, w, e, k)}

\* C30: the bitset DynamicColliderPass returns in a tick has a bit exactly
\* for the Position tile of every DynamicCollider entity and for the
\* targetIdx of every DynamicCollider entity with a Move, as the world was
\* at the start of the tick, whatever the bitset held before (the bits of
\* the tick before and the target bits PlanExecutionPass and
\* StraightWalkPass added to them).
C30_ColliderBits ==
  [][(pc = "DynamicColliderPass" /\ pc' # pc) => colliders' = occupied(map, world)]_vars

\* the pass has run in a later tick: entity 1 started on tile 0 and has
\* arrived on tile 1, and the bit of tile 0, set in the ticks before, is
\* gone from the bitset
C30_Witness ==
  /\ pc = "MovementPass"
  /\ tick > 0
  /\ initial[1][Position] = Some([x |-> 0, y |-> 0])
  /\ initial[1][DynamicCollider] # None
  /\ world[1][Position] = Some([x |-> 1, y |-> 0])
  /\ world[1][Move] = None
  /\ world[2] = NoEntity
  /\ colliders = {1}

\* the commands a pass step appended to the buffer
appended == SubSeq(cmds', Len(cmds) + 1, Len(cmds'))

\* entity e is one PlanExecutionPass works on, with a step left in its plan
planned(w, e) ==
  /\ w[e][<<"PathPlan">>] # None
  /\ w[e][<<"Position">>] # None
  /\ w[e][<<"Move">>] = None
  /\ w[e][<<"PathPlan">>][1].nextActionIndex < Len(w[e][<<"PathPlan">>][1].path)

\* the direction the plan of e names next
nextDirection(w, e) == w[e][<<"PathPlan">>][1].path[w[e][<<"PathPlan">>][1].nextActionIndex + 1]

\* command cmd for entity e takes the step the plan names next and no other
takesNextStep(w, e, cmd) ==
  /\ (cmd.op = "set" /\ cmd.c = <<"FaceDirection">>) => cmd.v = <<nextDirection(w, e)>>
  /\ (cmd.op = "set" /\ cmd.c = <<"PathPlan">>)
       => cmd.v[1].nextActionIndex = w[e][<<"PathPlan">>][1].nextActionIndex + 1

\* C31: with a plan of directions the comparison of the tile index with the
\* path entry in PlanExecutionPass does nothing: on whatever tile the entity
\* stands, the move attempted is in direction path[nextActionIndex] and an
\* attached Move advances nextActionIndex by exactly 1.
C31_NoStepSkipped ==
  [][(pc = "PlanExecutionPass" /\ pc' # pc) =>
       \A e \in Entities :
         planned(world, e) =>
           \A i \in DOMAIN appended : appended[i].e = e => takesNextStep(world, e, appended[i])]_vars

\* the commands of a pass step for entity e
commandsFor(e) == SelectSeq(appended, LAMBDA cmd : cmd.e = e)

\* the targets of the Moves a pass step attached to entities before e
targetsBefore(e) ==
  {appended[i].v[1].targetIdx :
     i \in {j \in DOMAIN appended : appended[j].e < e /\ appended[j].op = "set" /\ appended[j].c = <<"Move">>}}

tileOf(m, w, e) == w[e][<<"Position">>][1].y * m.geometry.width + w[e][<<"Position">>][1].x

\* the index in path of the step PlanExecutionPass attempts for e: the next
\* one, or the one after it where the tile index equals the path entry
attemptedIdx(m, w, e) ==
  IF nextDirection(w, e) = tileOf(m, w, e)
  THEN w[e][<<"PathPlan">>][1].nextActionIndex + 1
  ELSE w[e][<<"PathPlan">>][1].nextActionIndex

dropsPlan(e) == commandsFor(e) = << [op |-> "remove", e |-> e, c |-> <<"PathPlan">>, v |-> <<>>] >>

\* the pass attached move and turned e to direction d
startsStep(w, e, d, move) ==
  /\ Len(commandsFor(e)) = 3
  /\ commandsFor(e)[1] = [op |-> "set", e |-> e, c |-> <<"Move">>, v |-> <<move>>]
  /\ commandsFor(e)[2] = [op |-> "set", e |-> e, c |-> <<"FaceDirection">>, v |-> <<d>>]
  /\ commandsFor(e)[3].op = "set"
  /\ commandsFor(e)[3].c = <<"PathPlan">>
  /\ commandsFor(e)[3].v[1].path = w[e][<<"PathPlan">>][1].path
  /\ move.targetIdx \in colliders'

\* what PlanExecutionPass does for an entity e with PathPlan, Position and
\* no Move
executesPlan(m, w, e) ==
  IF w[e][<<"PathPlan">>][1].nextActionIndex >= Len(w[e][<<"PathPlan">>][1].path)
  THEN dropsPlan(e)
  ELSE IF attemptedIdx(m, w, e) >= Len(w[e][<<"PathPlan">>][1].path)
  THEN dropsPlan(e)
  ELSE IF generateMove(m, tileOf(m, w, e), w[e][<<"PathPlan">>][1].path[attemptedIdx(m, w, e) + 1],
                       colliders \cup targetsBefore(e)) = <<>>
  THEN dropsPlan(e)
  ELSE startsStep(w, e, w[e][<<"PathPlan">>][1].path[attemptedIdx(m, w, e) + 1],
                  generateMove(m, tileOf(m, w, e), w[e][<<"PathPlan">>][1].path[attemptedIdx(m, w, e) + 1],
                               colliders \cup targetsBefore(e))[1])

RECURSIVE followed(_, _, _)
followed(g, idx, path) ==
  IF path = <<>> THEN idx
  ELSE IF inGrid(g, stepX(g, idx, path[1]), stepY(g, idx, path[1]))
  THEN followed(g, stepY(g, idx, path[1]) * g.width + stepX(g, idx, path[1]), Tail(path))
  ELSE -1

\* the tiles a and b are walkable and lie on different islands
crossing(m, a, b) ==
  /\ m.islandIndex[a + 1] # -1 /\ m.islandIndex[b + 1] # -1
  /\ m.islandIndex[a + 1] # m.islandIndex[b + 1]

\* the portals leaving island isl, and those arriving on it
entriesOf(m, isl) ==
  IF isl \in DOMAIN m.islandPortalEntries THEN SeqRange(m.islandPortalEntries[isl]) ELSE {}
exitsOf(m, isl) ==
  IF isl \in DOMAIN m.islandPortalExits THEN SeqRange(m.islandPortalExits[isl]) ELSE {}

\* the connected pairs (entry portal of a's island, exit portal of b's island)
connectedPairs(m, a, b) ==
  {pr \in entriesOf(m, m.islandIndex[a + 1]) \X exitsOf(m, m.islandIndex[b + 1]) :
     pr[2] \in DOMAIN m.portalPaths[pr[1]]}

\* those of minimal precomputed cost
minimalPairs(m, a, b) ==
  {pr \in connectedPairs(m, a, b) :
     \A other \in connectedPairs(m, a, b) :
       m.portalPaths[pr[1]][pr[2]].cost <= m.portalPaths[other[1]][other[2]].cost}

\* the from tile of the first portal of the sequence stored for a pair
firstFrom(m, pr) == m.portals[m.portalPaths[pr[1]][pr[2]].path[1] + 1].from

\* the plans the pass attached to entity e
attachedPlans(e) ==
  {cmds[i].v[1] : i \in {j \in DOMAIN cmds : cmds[j].op = "set" /\ cmds[j].e = e /\ cmds[j].c = <<"PathPlan">>}}

\* the pass counted a failed attempt for the goal of entity e
countedFailure(e) ==
  LET goal == world[e][<<"GoalPathfinding">>][1]
  IN cmds = IF goal.retryCount < goal.maxRetries
            THEN << setCmd(e, <<"GoalPathfinding">>, [goal EXCEPT !.retryCount = goal.retryCount + 1]) >>
            ELSE << removeCmd(e, <<"GoalPathfinding">>) >>

\* C33: for a start and a goal on different islands, a plan the pass attaches
\* has the goal tile as targetIndex and a path of directions that leads from
\* the current tile to the from tile of the first portal of a pair (entry
\* portal of the start island, exit portal of the goal island) of minimal
\* precomputed cost; without a connected pair no plan is attached and the
\* attempt counts as a failure.
C33_CrossIsland ==
  pc = "ran" /\ crossing(map, args.startIndex, args.goalIndex)
  => /\ connectedPairs(map, args.startIndex, args.goalIndex) = {} => countedFailure(1)
     /\ \A plan \in attachedPlans(1) :
          /\ plan.targetIndex = args.goalIndex
          /\ \E pr \in minimalPairs(map, args.startIndex, args.goalIndex) :
               followed(map.geometry, args.startIndex, plan.path) = firstFrom(map, pr)

(***************************************************************************)
(* Areas                                                                   *)
(***************************************************************************)
\* the areas of the list registered under the name: the last one so named
registered(areas, name) ==
  {i \in DOMAIN areas :
     areas[i].name = name /\ \A j \in DOMAIN areas : j > i => areas[j].name # name}

\* C34: isInArea(index, areaName) returns true exactly when the tile belongs
\* to the cells of the area registered under areaName, whether or not an
\* area defined later covers the tile as well.
C34_IsInArea ==
  pc = "return"
  => (ret = Some(TRUE)
      <=> /\ args.index < Len(map.tiles)
          /\ \E i \in registered(args.areas, args.areaName) : args.index \in args.areas[i].cells)

(***************************************************************************)
(* Goal pursuit                                                            *)
(***************************************************************************)
\* C35: with ticks issued for ever and no other dynamic collider, every
\* entity that holds GoalPathfinding eventually holds it no longer.
C35_PursuitEnds ==
  \A e \in Entities :
    world[e][<<"GoalPathfinding">>] # None ~> world[e][<<"GoalPathfinding">>] = None

(***************************************************************************)
(* Collisions                                                              *)
(***************************************************************************)
\* the entities of world w that are dynamic colliders with a Position
solid(w) == {e \in DOMAIN w : w[e][<<"DynamicCollider">>] # None /\ w[e][<<"Position">>] # None}

\* the tile of the Position of e
standsOn(m, w, e) == w[e][<<"Position">>][1].y * m.geometry.width + w[e][<<"Position">>][1].x

\* no two dynamic colliders on one tile, no two of their Moves onto one
\* tile, no Move onto the tile of another
collisionFree(m, w) ==
  \A a \in solid(w), b \in solid(w) :
    a # b =>
      /\ standsOn(m, w, a) # standsOn(m, w, b)
      /\ w[a][<<"Move">>] # None /\ w[b][<<"Move">>] # None
           => w[a][<<"Move">>][1].targetIdx # w[b][<<"Move">>][1].targetIdx
      /\ w[a][<<"Move">>] # None => w[a][<<"Move">>][1].targetIdx # standsOn(m, w, b)

\* C36: a world that starts without collisions between its dynamic colliders
\* and gains no dynamic collider later stays without them after any number
\* of ticks, with or without portals.
C36_NoCollision ==
  collisionFree(map, initial) /\ solid(world) \subseteq solid(initial) => collisionFree(map, world)

(***************************************************************************)
(* Positions                                                               *)
(***************************************************************************)
\* entity e of world w has a Position inside the grid and off the obstacles
wellPlaced(m, w, e) ==
  /\ w[e][<<"Position">>] # None
  /\ w[e][<<"Position">>][1].x \in 0..(m.geometry.width - 1)
  /\ w[e][<<"Position">>][1].y \in 0..(m.geometry.height - 1)
  /\ m.tiles[w[e][<<"Position">>][1].y * m.geometry.width + w[e][<<"Position">>][1].x + 1] # Obstacle

\* C37: an entity that starts on a tile inside the grid that is no obstacle
\* is on such a tile after any number of ticks, on maps with portals too.
C37_PositionValid ==
  \A e \in Entities : wellPlaced(map, initial, e) => wellPlaced(map, world, e)

(***************************************************************************)
(* A player removed while its thinking timer is pending                    *)
(***************************************************************************)
\* entity e is gone from the world while a host timer started for it is
\* still outstanding
orphaned(w, e) ==
  /\ \A c \in DOMAIN w[e] : w[e][c] = None
  /\ \E t \in timers : t.e = e

\* this step is the callback of a timer of entity e
callbackOf(e) == \E t \in timers : t.e = e /\ timers' = timers \ {t}

\* the player ids of the entities of world w
idsOf(w) == {w[e][<<"PlayerId">>][1] : e \in {x \in DOMAIN w : w[x][<<"PlayerId">>] # None}}

thinks(w, e) == w[e][<<"Thinking">>] # None

\* entity e of world w holds none of the components of a movement
idle(w, e) ==
  \A c \in {<<"Move">>, <<"StraightWalk">>, <<"PathPlan">>, <<"GoalPathfinding">>} : w[e][c] = None

\* C39: an entity that holds Thinking holds none of Move, StraightWalk,
\* PathPlan and GoalPathfinding, and from the tick that attaches Thinking to
\* the tick that removes it its Position stays the same.
C39_ThinkingStandsStill ==
  /\ [](\A e \in Entities : thinks(world, e) => idle(world, e))
  /\ [][\A e \in Entities :
          /\ thinks(world, e) \/ thinks(world', e)
          /\ world[e][<<"Position">>] # None /\ world'[e][<<"Position">>] # None
          => world'[e][<<"Position">>] = world[e][<<"Position">>]]_vars

\* a player stands thinking, its time is up, while the other player walks
C39_Witness ==
  \E e \in Entities, o \in Entities :
    /\ thinks(world, e) /\ world[e][<<"Timeout", "Thinking">>] # None
    /\ world[e][<<"Position">>] # None
    /\ world[o][<<"Move">>] # None

(***************************************************************************)
(* The end of a goal                                                       *)
(***************************************************************************)
\* the goal of entity e in world w
goalOf(w, e) == w[e][<<"GoalPathfinding">>][1]

\* the retry counter of e lies between 0 and maxRetries
counted(w, e) ==
  w[e][<<"GoalPathfinding">>] # None => goalOf(w, e).retryCount \in 0..goalOf(w, e).maxRetries

\* PathFindingPass has just issued the removal of the goal of e
givesUp(e) == \E i \in DOMAIN appended : appended[i] = removeCmd(e, <<"GoalPathfinding">>)

\* C40: PathFindingPass removes GoalPathfinding only from an entity that
\* stands on the goal tile, and then issues nothing else for it, or from one
\* for which plan generation failed with retryCount at maxRetries; a
\* retryCount that starts within 0..maxRetries stays there.
C40_GoalRemoval ==
  /\ [](\A e \in Entities : counted(initial, e) => counted(world, e))
  /\ [][(pc = "PathFindingPass" /\ pc' # pc) =>
          \A e \in Entities :
            givesUp(e) =>
              /\ commandsFor(e) = << removeCmd(e, <<"GoalPathfinding">>) >>
              /\ \/ tileOf(map, world, e) = goalOf(world, e).targetIndex
                 \/ /\ generatePlan(map, tileOf(map, world, e), goalOf(world, e).targetIndex, colliders) = None
                    /\ goalOf(world, e).retryCount >= goalOf(world, e).maxRetries]_vars

\* the pass has given up a goal it could not plan for after counting
\* maxRetries failures
C40_Witness ==
  /\ pc = "PlanExecutionPass"
  /\ \E e \in Entities :
       /\ cmds = << removeCmd(e, <<"GoalPathfinding">>) >>
       /\ world[e][<<"GoalPathfinding">>] # None
       /\ tileOf(map, world, e) # goalOf(world, e).targetIndex
       /\ goalOf(world, e).retryCount = goalOf(world, e).maxRetries
       /\ goalOf(world, e).maxRetries >= 1
====
